---- MODULE Spec2Model ----
(***************************************************************************)
(* AgroSmart backend (backend/agrosmart_api.py): the shared farm state     *)
(* (system_state), the AutomaticModeAI throttled analysis and the request  *)
(* handlers for /api/sensors, /api/mode and /api/irrigation/immediate.     *)
(*                                                                         *)
(* Time is counted in whole seconds since the module was imported.         *)
(* Python's None is the empty tuple, a present value x is <<x>>.           *)
(* A value of one of the four measured fields of the reading is tagged:    *)
(* Num(n) is a number, Text(s) a JSON string.                              *)
(***************************************************************************)
EXTENDS Integers, Sequences, FiniteSets, TLC

None == <<>>
Some(x) == <<x>>

\* The JSON values a measured field of the reading can hold: post_sensors
\* stores the value as posted, a number or anything else.
Num(n) == [num |-> TRUE, val |-> n]
Text(s) == [num |-> FALSE, val |-> s]

\* ------------------------------------------------------------------ bounds
\* The requests arrive at instants 15 s apart: 0, 15, ..., 15 * MaxTicks.
MaxTicks == 2

\* The number of jobs the job store holds at most.
MaxJobs == 2

\* The chat requests that store an entry after the start, and the entries
\* that the chat history holds at the start of a long session.
MaxChats == 3
PastChats == 99

\* ------------------------------------------------------- program constants
\* AutomaticModeAI.analysis_interval
analysis_interval == 30
\* timedelta.seconds is the seconds component of the difference: the days are
\* carried by timedelta.days, so .seconds is always in 0 .. 86399.
SecondsPerDay == 86400
\* data.get('duration', 10)
DefaultDuration == 10
\* "Keep last 100 conversations"
HistoryLimit == 100

\* The clock starts at 00:00:00 on 31 March, so that datetime.now().month is
\* 3 during the first day and 4 (planting season) afterwards.
MonthOf(t) == IF t < SecondsPerDay THEN 3 ELSE 4

\* ------------------------------------------------------------------- state
VARIABLES
    sensor_data,         \* system_state["sensor_data"]
    current_mode,        \* system_state["current_mode"]
    irrigation_status,   \* system_state["irrigation_status"]
    current_action,      \* automatic_ai.current_action
    last_analysis_time,  \* automatic_ai.last_analysis_time
    now,                 \* datetime.datetime.now()
    response,            \* the JSON reply of the latest request
    prior,               \* history: what the latest request found
    last_eval,           \* history: the latest evaluation in automatic mode
    threads,             \* the request threads of app.run(threaded=True)
    thresholds,          \* the threshold configuration in memory
    persisted,           \* the threshold configuration in durable storage
    chat_history         \* system_state["chat_history"]

vars == <<sensor_data, current_mode, irrigation_status, current_action,
          last_analysis_time, now, response, prior, last_eval, threads,
          thresholds, persisted, chat_history>>

\* ------------------------------------------------------ AutomaticModeAI
\* (current_time - self.last_analysis_time).seconds
TimedeltaSeconds(later, earlier) == (later - earlier) % SecondsPerDay

Max(a, b) == IF a >= b THEN a ELSE b

\* The if / elif / else chains of _perform_intelligent_analysis, one operator
\* per chain; each yields what the chain appends and what it takes off the
\* score.
\* A message appended to one of the lists: its text and, for an f-string, the
\* value formatted into it.
Msg(text) == <<text>>
MsgOf(text, value) == <<text, value>>

Nothing == [alerts |-> <<>>, system_actions |-> <<>>, priority_actions |-> <<>>,
            recommendations |-> <<>>, market_insights |-> <<>>, deduct |-> 0]

\* SoilMoistureAnalysis with the deduction of the low band in the critical
\* band.
SoilMoistureAnalysis_CriticalDeductsTen(soil_moisture) ==
    IF soil_moisture < 25 THEN
        [Nothing EXCEPT
            !.alerts = <<Msg("Critical: Soil moisture low - Crops need water")>>,
            !.system_actions = <<Msg("AUTO: Preparing irrigation system for immediate watering")>>,
            !.recommendations = <<Msg("Recommend: Start drip irrigation for 15-20 minutes")>>,
            !.deduct = 10]
    ELSE IF soil_moisture < 35 THEN
        [Nothing EXCEPT
            !.priority_actions = <<Msg("Monitor: Soil moisture below optimal - Consider irrigation")>>,
            !.recommendations = <<Msg("Plan irrigation within next 2-3 hours for optimal growth")>>,
            !.deduct = 10]
    ELSE
        [Nothing EXCEPT
            !.priority_actions = <<Msg("Good: Soil moisture optimal for current growth stage")>>]

SoilMoistureAnalysis(soil_moisture) ==
    IF soil_moisture < 25 THEN
        [Nothing EXCEPT
            !.alerts = <<Msg("Critical: Soil moisture low - Crops need water")>>,
            !.system_actions = <<Msg("AUTO: Preparing irrigation system for immediate watering")>>,
            !.recommendations = <<Msg("Recommend: Start drip irrigation for 15-20 minutes")>>,
            !.deduct = 20]
    ELSE IF soil_moisture < 35 THEN
        [Nothing EXCEPT
            !.priority_actions = <<Msg("Monitor: Soil moisture below optimal - Consider irrigation")>>,
            !.recommendations = <<Msg("Plan irrigation within next 2-3 hours for optimal growth")>>,
            !.deduct = 10]
    ELSE
        [Nothing EXCEPT
            !.priority_actions = <<Msg("Good: Soil moisture optimal for current growth stage")>>]

\* The temperature analysis with 32 among the high temperatures.
TemperatureAnalysis_HighFromMax(temp) ==
    IF temp >= 32 THEN
        [Nothing EXCEPT
            !.alerts = <<Msg("Alert: High temperature detected - Risk of heat stress")>>,
            !.system_actions = <<Msg("AUTO: Increasing ventilation and shade protection")>>,
            !.recommendations = <<Msg("Consider temporary shade cloth or misting system")>>,
            !.deduct = 15]
    ELSE IF temp < 15 THEN
        [Nothing EXCEPT
            !.alerts = <<Msg("Alert: Low temperature - Growth may slow down")>>,
            !.system_actions = <<Msg("AUTO: Monitoring for frost protection needs")>>,
            !.deduct = 10]
    ELSE
        [Nothing EXCEPT
            !.priority_actions = <<MsgOf("Optimal: Temperature {temp} C perfect for crop growth", temp)>>]

TemperatureAnalysis(temp) ==
    IF temp > 32 THEN
        [Nothing EXCEPT
            !.alerts = <<Msg("Alert: High temperature detected - Risk of heat stress")>>,
            !.system_actions = <<Msg("AUTO: Increasing ventilation and shade protection")>>,
            !.recommendations = <<Msg("Consider temporary shade cloth or misting system")>>,
            !.deduct = 15]
    ELSE IF temp < 15 THEN
        [Nothing EXCEPT
            !.alerts = <<Msg("Alert: Low temperature - Growth may slow down")>>,
            !.system_actions = <<Msg("AUTO: Monitoring for frost protection needs")>>,
            !.deduct = 10]
    ELSE
        [Nothing EXCEPT
            !.priority_actions = <<MsgOf("Optimal: Temperature {temp} C perfect for crop growth", temp)>>]

RainAnalysis(rain_detected) ==
    IF rain_detected THEN
        [Nothing EXCEPT
            !.system_actions = <<Msg("AUTO: Rain detected - Pausing irrigation to prevent overwatering")>>,
            !.recommendations = <<Msg("Natural irrigation active - Monitor drainage systems")>>]
    ELSE Nothing

ForecastAnalysis(forecast) ==
    IF Len(forecast) > 0 THEN
        LET rain_chance == forecast[1].rain_chance IN
        IF rain_chance > 60 THEN
            [Nothing EXCEPT
                !.system_actions = <<Msg("AUTO: High rain probability - Postponing irrigation schedule")>>,
                !.recommendations = <<Msg("Prepare drainage channels for expected rainfall")>>]
        ELSE IF rain_chance < 10 THEN
            [Nothing EXCEPT
                !.priority_actions = <<Msg("Clear weather ahead - Optimal for field activities")>>,
                !.recommendations = <<Msg("Good time for harvesting, weeding, or application work")>>]
        ELSE Nothing
    ELSE Nothing

\* WaterLevelAnalysis with "score += 25" for "score -= 25".
WaterLevelAnalysis_AddsDeduction(water_level) ==
    IF water_level < 150 THEN
        [Nothing EXCEPT
            !.alerts = <<Msg("Critical: Water tank level very low - Refill needed")>>,
            !.system_actions = <<Msg("AUTO: Sending low water level notification")>>,
            !.deduct = -25]
    ELSE IF water_level < 200 THEN
        [Nothing EXCEPT
            !.priority_actions = <<Msg("Monitor: Water level getting low - Plan refill soon")>>,
            !.deduct = 5]
    ELSE Nothing

\* WaterLevelAnalysis with the deduction of the low band in the critical band.
WaterLevelAnalysis_CriticalDeductsFive(water_level) ==
    IF water_level < 150 THEN
        [Nothing EXCEPT
            !.alerts = <<Msg("Critical: Water tank level very low - Refill needed")>>,
            !.system_actions = <<Msg("AUTO: Sending low water level notification")>>,
            !.deduct = 5]
    ELSE IF water_level < 200 THEN
        [Nothing EXCEPT
            !.priority_actions = <<Msg("Monitor: Water level getting low - Plan refill soon")>>,
            !.deduct = 5]
    ELSE Nothing

\* The water level analysis with "if" for "elif": a critical level is also
\* a low one.
WaterLevelAnalysis_BothBands(water_level) ==
    IF water_level < 150 THEN
        [Nothing EXCEPT
            !.alerts = <<Msg("Critical: Water tank level very low - Refill needed")>>,
            !.system_actions = <<Msg("AUTO: Sending low water level notification")>>,
            !.priority_actions = <<Msg("Monitor: Water level getting low - Plan refill soon")>>,
            !.deduct = 30]
    ELSE IF water_level < 200 THEN
        [Nothing EXCEPT
            !.priority_actions = <<Msg("Monitor: Water level getting low - Plan refill soon")>>,
            !.deduct = 5]
    ELSE Nothing

WaterLevelAnalysis(water_level) ==
    IF water_level < 150 THEN
        [Nothing EXCEPT
            !.alerts = <<Msg("Critical: Water tank level very low - Refill needed")>>,
            !.system_actions = <<Msg("AUTO: Sending low water level notification")>>,
            !.deduct = 25]
    ELSE IF water_level < 200 THEN
        [Nothing EXCEPT
            !.priority_actions = <<Msg("Monitor: Water level getting low - Plan refill soon")>>,
            !.deduct = 5]
    ELSE Nothing

MarketAnalysis(current_month) ==
    IF current_month \in {4, 5} THEN
        [Nothing EXCEPT
            !.market_insights = <<Msg("Market Insight: Ginger planting season - Optimal ROI opportunity")>>,
            !.recommendations = <<Msg("Consider ginger cultivation")>>]
    ELSE IF current_month \in {12, 1} THEN
        [Nothing EXCEPT
            !.market_insights = <<Msg("Market Insight: Harvest season - Premium prices expected")>>,
            !.recommendations = <<Msg("Plan harvesting for maximum market value")>>]
    ELSE Nothing

HumidityAnalysis(humidity) ==
    IF humidity > 80 THEN
        [Nothing EXCEPT
            !.system_actions = <<Msg("AUTO: High humidity detected - Increasing air circulation")>>,
            !.recommendations = <<Msg("Consider fungal disease prevention measures")>>]
    ELSE IF humidity < 50 THEN
        [Nothing EXCEPT
            !.system_actions = <<Msg("AUTO: Low humidity - Adjusting misting schedule")>>]
    ELSE Nothing

\* The status with Good from 80 on.
OverallStatus_GoodFromEighty(score) ==
    IF score >= 90 THEN "Excellent: Farm conditions optimal"
    ELSE IF score >= 80 THEN "Good: Minor adjustments recommended"
    ELSE IF score >= 60 THEN "Fair: Several improvements needed"
    ELSE "Action Required: Multiple critical issues detected"

\* "Add overall status"
OverallStatus(score) ==
    IF score >= 90 THEN "Excellent: Farm conditions optimal"
    ELSE IF score >= 75 THEN "Good: Minor adjustments recommended"
    ELSE IF score >= 60 THEN "Fair: Several improvements needed"
    ELSE "Action Required: Multiple critical issues detected"

\* The fields of the reading that the try block compares with numbers.
MeasuredKeys == {"temperature", "humidity", "soil_moisture", "water_level"}

\* weather_data is a dict (None, which has no .get, is the empty tuple).
IsMapping(weather) == DOMAIN weather # {}

\* The try block raises: weather_data.get on a value that is not a dict
\* (AttributeError), or one of the comparisons soil_moisture < 25, temp > 32,
\* water_level < 150, humidity > 80 on a value that is not a number
\* (TypeError).  Each of the four comparisons is made on every path.
Raises(sensor, weather) ==
    \/ ~IsMapping(weather)
    \/ \E k \in MeasuredKeys : ~sensor[k].num

\* The except branch with a score of 0.
FallbackAnalysis_ScoreZero(t) ==
    [ timestamp          |-> t,
      overall_status     |-> "AI analysis system operational",
      system_actions     |-> <<Msg("AUTO: Performing system diagnostics")>>,
      recommendations    |-> <<Msg("Monitoring all farm parameters continuously")>>,
      optimization_score |-> 0 ]

\* The dict returned by the except branch at time t.
FallbackAnalysis(t) ==
    [ timestamp          |-> t,
      overall_status     |-> "AI analysis system operational",
      system_actions     |-> <<Msg("AUTO: Performing system diagnostics")>>,
      recommendations    |-> <<Msg("Monitoring all farm parameters continuously")>>,
      optimization_score |-> 85 ]

\* The analysis with a score that rain lowers by 5.
PerformIntelligentAnalysis_RainDeducts(sensor, weather, t) ==
    IF Raises(sensor, weather) THEN FallbackAnalysis(t) ELSE
    LET parts == << SoilMoistureAnalysis(sensor.soil_moisture.val),
                    TemperatureAnalysis(sensor.temperature.val),
                    RainAnalysis(sensor.rain_detected),
                    ForecastAnalysis(weather.forecast),
                    WaterLevelAnalysis(sensor.water_level.val),
                    MarketAnalysis(MonthOf(t)),
                    HumidityAnalysis(sensor.humidity.val) >>
        Cat(f) == parts[1][f] \o parts[2][f] \o parts[3][f] \o parts[4][f]
                  \o parts[5][f] \o parts[6][f] \o parts[7][f]
        score == 100 - parts[1].deduct - parts[2].deduct - parts[5].deduct
                     - (IF sensor.rain_detected THEN 5 ELSE 0)
    IN  [ timestamp          |-> t,
          priority_actions   |-> Cat("priority_actions"),
          recommendations    |-> Cat("recommendations"),
          alerts             |-> Cat("alerts"),
          system_actions     |-> Cat("system_actions"),
          market_insights    |-> Cat("market_insights"),
          optimization_score |-> Max(0, score),
          overall_status     |-> OverallStatus(score) ]

\* _perform_intelligent_analysis(sensor_data, weather_data) at time t: the
\* except branch when the try block raises, otherwise the analysis the try
\* block returns.
PerformIntelligentAnalysis(sensor, weather, t) ==
    IF Raises(sensor, weather) THEN FallbackAnalysis(t) ELSE
    LET parts == << SoilMoistureAnalysis(sensor.soil_moisture.val),
                    TemperatureAnalysis(sensor.temperature.val),
                    RainAnalysis(sensor.rain_detected),
                    ForecastAnalysis(weather.forecast),
                    WaterLevelAnalysis(sensor.water_level.val),
                    MarketAnalysis(MonthOf(t)),
                    HumidityAnalysis(sensor.humidity.val) >>
        Cat(f) == parts[1][f] \o parts[2][f] \o parts[3][f] \o parts[4][f]
                  \o parts[5][f] \o parts[6][f] \o parts[7][f]
        score == 100 - parts[1].deduct - parts[2].deduct - parts[5].deduct
    IN  [ timestamp          |-> t,
          priority_actions   |-> Cat("priority_actions"),
          recommendations    |-> Cat("recommendations"),
          alerts             |-> Cat("alerts"),
          system_actions     |-> Cat("system_actions"),
          market_insights    |-> Cat("market_insights"),
          optimization_score |-> Max(0, score),
          overall_status     |-> OverallStatus(score) ]

\* The three replies of analyze_and_display_actions.  A key the reply does not
\* carry is None; wait is the number formatted into the throttled message.
InactiveReply ==
    [ ai_active |-> FALSE,
      message |-> "AI monitoring disabled - Manual mode active",
      wait |-> None, analysis |-> None, current_action |-> None,
      next_check |-> None ]

ThrottledReply(elapsed, cur) ==
    [ ai_active |-> TRUE,
      message |-> "AI analyzing... Next check in {wait} seconds",
      wait |-> Some(analysis_interval - elapsed),
      analysis |-> None, current_action |-> cur, next_check |-> None ]

FreshReply(analysis) ==
    [ ai_active |-> TRUE,
      message |-> "AI actively monitoring and optimizing your farm",
      wait |-> None, analysis |-> Some(analysis), current_action |-> None,
      next_check |-> Some(analysis_interval) ]

\* "Check if it's time for new analysis": the guard of the throttled return.
Throttled(t, last) ==
    /\ last # None
    /\ TimedeltaSeconds(t, last[1]) < analysis_interval

\* analyze_and_display_actions without the check of the mode.
Analyze_IgnoresMode(sensor, weather, mode, t, cur, last) ==
    IF Throttled(t, last) THEN
        [ reply |-> ThrottledReply(TimedeltaSeconds(t, last[1]), cur),
          current_action |-> cur, last_analysis_time |-> last ]
    ELSE
        LET analysis == PerformIntelligentAnalysis(sensor, weather, t) IN
        [ reply |-> FreshReply(analysis),
          current_action |-> Some(analysis),
          last_analysis_time |-> Some(t) ]

\* analyze_and_display_actions without the throttle: every call in automatic
\* mode recomputes.
Analyze_NeverThrottles(sensor, weather, mode, t, cur, last) ==
    IF mode # "automatic" THEN
        [ reply |-> InactiveReply, current_action |-> cur,
          last_analysis_time |-> last ]
    ELSE
        LET analysis == PerformIntelligentAnalysis(sensor, weather, t) IN
        [ reply |-> FreshReply(analysis),
          current_action |-> Some(analysis),
          last_analysis_time |-> Some(t) ]

\* analyze_and_display_actions with a manual branch that drops the cached
\* analysis.
Analyze_ManualDropsCache(sensor, weather, mode, t, cur, last) ==
    IF mode # "automatic" THEN
        [ reply |-> InactiveReply, current_action |-> None,
          last_analysis_time |-> None ]
    ELSE IF Throttled(t, last) THEN
        [ reply |-> ThrottledReply(TimedeltaSeconds(t, last[1]), cur),
          current_action |-> cur, last_analysis_time |-> last ]
    ELSE
        LET analysis == PerformIntelligentAnalysis(sensor, weather, t) IN
        [ reply |-> FreshReply(analysis),
          current_action |-> Some(analysis),
          last_analysis_time |-> Some(t) ]

\* analyze_and_display_actions(sensor_data, weather_data, current_mode) at
\* time t, with cur = self.current_action and last = self.last_analysis_time:
\* the reply and the two fields as the call leaves them.
AnalyzeAndDisplayActions(sensor, weather, mode, t, cur, last) ==
    IF mode # "automatic" THEN
        [ reply |-> InactiveReply, current_action |-> cur,
          last_analysis_time |-> last ]
    ELSE IF Throttled(t, last) THEN
        [ reply |-> ThrottledReply(TimedeltaSeconds(t, last[1]), cur),
          current_action |-> cur, last_analysis_time |-> last ]
    ELSE
        LET analysis == PerformIntelligentAnalysis(sensor, weather, t) IN
        [ reply |-> FreshReply(analysis),
          current_action |-> Some(analysis),
          last_analysis_time |-> Some(t) ]

\* The assessment a reply of analyze_and_display_actions delivers, if any.
Delivered(reply) ==
    IF reply.analysis # None THEN reply.analysis ELSE reply.current_action

\* History of the evaluations made in automatic mode: the time of the call
\* and the assessment it delivered.
LogEval(mode, t, reply, log) ==
    IF mode = "automatic" THEN Some([time |-> t, delivered |-> Delivered(reply)])
    ELSE log

\* ------------------------------------------------------------ system_state
InitialSensorData ==
    [ temperature |-> Num(25), humidity |-> Num(68), soil_moisture |-> Num(42),
      water_level |-> Num(245), rain_detected |-> FALSE, pump_running |-> FALSE,
      esp32_ip |-> None, last_updated |-> 0, connection_status |-> "connected" ]

InitialIrrigationStatus ==
    [ running |-> FALSE, start_time |-> None, duration |-> 0,
      scheduled_jobs |-> <<>> ]

\* A reply: the keys of the JSON body that the properties below read; a key
\* the reply does not carry, or that no property reads, is None.
Reply(op, success) ==
    [ op |-> op, success |-> success, message |-> None, error |-> None,
      action |-> None, mode |-> None, ai_analysis |-> None,
      ai_insight |-> None, data |-> None ]

\* History of the latest request: its body (irrigation, mode and sensor
\* requests) and time (irrigation and mode requests), the irrigation status
\* it found (irrigation requests), the last analysis time and the last
\* evaluation it found (requests that evaluate), the weather data it passed
\* (direct evaluations) and whether the request before it was a successful
\* request for the same mode (mode requests).  The fields a request does not
\* set have the values below.  scheduler: the job that the scheduler found
\* due since the latest request, and the irrigation status it found.
NoPrior ==
    [ request |-> None, time |-> 0,
      irrigation_status |-> InitialIrrigationStatus,
      last_analysis_time |-> None, eval |-> None,
      weather |-> None, repeat |-> FALSE, scheduler |-> None ]

\* ------------------------------------------------------- request threads
\* app.run(threaded=True): every request is handled on a thread of its own.
Workers == {"w1", "w2"}

\* A thread that is handling no request.  While it handles one: pc is the
\* statement it is about to execute, current_time the local of
\* analyze_and_display_actions, i the position of a loop or of a run of
\* reads, seen the fields of the reading it has read so far, analysis the
\* local of analyze_and_display_actions.
Idle ==
    [ pc |-> "idle", current_time |-> 0, i |-> 0,
      seen |-> [k \in {} |-> 0], analysis |-> None ]

\* The threshold configuration: the design document's ThresholdConfig with
\* the keys whose values the analysis has as literals; these literals are
\* the defaults.
DefaultThresholds ==
    [ soilMoistureCritical |-> 25, soilMoistureLow |-> 35,
      temperatureMax |-> 32, waterLevelCritical |-> 150,
      waterLevelMin |-> 200, humidityCritical |-> 80, humidityMin |-> 50 ]

Init ==
    /\ sensor_data = InitialSensorData
    /\ current_mode = "automatic"
    /\ irrigation_status = InitialIrrigationStatus
    /\ current_action = None
    /\ last_analysis_time = None
    /\ now = 0
    /\ response = Reply("none", TRUE)
    /\ prior = NoPrior
    /\ last_eval = None
    /\ threads = [w \in Workers |-> Idle]
    /\ thresholds = DefaultThresholds
    /\ persisted = None
    /\ chat_history = <<>>

\* Time passes between two requests: the clock moves on to a later instant.
Tick(instants) ==
    /\ \E t \in instants :
          /\ t > now
          /\ now' = t
    /\ UNCHANGED <<sensor_data, current_mode, irrigation_status, current_action,
                   last_analysis_time, response, prior, last_eval, threads,
                   thresholds, persisted, chat_history>>

\* ------------------------------------------- POST /api/irrigation/immediate
\* str.lower() on the action strings of IrrigationRequests.
Lower(s) == IF s = "STOP" THEN "stop" ELSE s

\* IrrigationUpdate with a stop that only switches running off.
IrrigationUpdate_StopKeepsTimer(status, action, duration, t) ==
    IF action = "start" THEN
        [status EXCEPT !.running = TRUE, !.start_time = Some(t),
                       !.duration = duration]
    ELSE IF action = "pause" THEN
        [status EXCEPT !.running = FALSE, !.start_time = None, !.duration = 0]
    ELSE IF action = "stop" THEN
        [status EXCEPT !.running = FALSE]
    ELSE IF action = "resume" THEN
        [status EXCEPT !.running = TRUE, !.start_time = Some(t)]
    ELSE status

\* IrrigationUpdate with a resume that only switches running on.
IrrigationUpdate_ResumeKeepsStartTime(status, action, duration, t) ==
    IF action = "start" THEN
        [status EXCEPT !.running = TRUE, !.start_time = Some(t),
                       !.duration = duration]
    ELSE IF action \in {"pause", "stop"} THEN
        [status EXCEPT !.running = FALSE, !.start_time = None, !.duration = 0]
    ELSE IF action = "resume" THEN
        [status EXCEPT !.running = TRUE]
    ELSE status

\* IrrigationUpdate with an else branch that switches the pump off.
IrrigationUpdate_UnknownStops(status, action, duration, t) ==
    IF action = "start" THEN
        [status EXCEPT !.running = TRUE, !.start_time = Some(t),
                       !.duration = duration]
    ELSE IF action \in {"pause", "stop"} THEN
        [status EXCEPT !.running = FALSE, !.start_time = None, !.duration = 0]
    ELSE IF action = "resume" THEN
        [status EXCEPT !.running = TRUE, !.start_time = Some(t)]
    ELSE [status EXCEPT !.running = FALSE, !.start_time = None, !.duration = 0]

\* IrrigationUpdate with a start that adds the new duration to the old one.
IrrigationUpdate_StartStacks(status, action, duration, t) ==
    IF action = "start" THEN
        [status EXCEPT !.running = TRUE, !.start_time = Some(t),
                       !.duration = status.duration + duration]
    ELSE IF action \in {"pause", "stop"} THEN
        [status EXCEPT !.running = FALSE, !.start_time = None, !.duration = 0]
    ELSE IF action = "resume" THEN
        [status EXCEPT !.running = TRUE, !.start_time = Some(t)]
    ELSE status

\* The if / elif chain on action: what it leaves in
\* system_state["irrigation_status"] at time t.
IrrigationUpdate(status, action, duration, t) ==
    IF action = "start" THEN
        [status EXCEPT !.running = TRUE, !.start_time = Some(t),
                       !.duration = duration]
    ELSE IF action \in {"pause", "stop"} THEN
        [status EXCEPT !.running = FALSE, !.start_time = None, !.duration = 0]
    ELSE IF action = "resume" THEN
        [status EXCEPT !.running = TRUE, !.start_time = Some(t)]
    ELSE status

\* messages.get(action, f"Irrigation {action} processed")
IrrigationMessage(action, duration) ==
    IF action = "start" THEN
        MsgOf("Irrigation started successfully for {duration} minutes!", duration)
    ELSE IF action = "pause" THEN Msg("Irrigation paused temporarily.")
    ELSE IF action = "stop" THEN Msg("Irrigation stopped successfully.")
    ELSE IF action = "resume" THEN Msg("Irrigation resumed successfully.")
    ELSE MsgOf("Irrigation {action} processed", action)

\* The insight of irrigation_immediate with one that has no text for good
\* conditions.
AiInsight_OnlyWhenRainLikely(mode, action, weather) ==
    IF mode = "automatic" /\ action = "start"
       /\ weather.current.rain_chance > 50
    THEN "AI Note: High rain probability detected - Consider shorter duration"
    ELSE ""

\* "Add AI insight if in automatic mode"
AiInsight(mode, action, weather) ==
    IF mode = "automatic" /\ action = "start" THEN
        IF weather.current.rain_chance > 50
        THEN "AI Note: High rain probability detected - Consider shorter duration"
        ELSE "AI Note: Good conditions for irrigation - Optimal timing"
    ELSE ""

\* The sensor reading as irrigation_immediate leaves it.
IrrigationSensorData(sensor, action) == sensor

IrrigationImmediate(requests, snapshots) ==
    \E req \in requests, weather \in snapshots :
        /\ prior' = [NoPrior EXCEPT !.request = Some(req), !.time = now,
                                    !.irrigation_status = irrigation_status]
        /\ IF req.action # None /\ ~req.action[1].str THEN
               \* ''.lower() does not exist on a number: the except branch
               /\ response' = [Reply("irrigation", FALSE) EXCEPT
                                  !.error = Some("AttributeError")]
               /\ UNCHANGED <<irrigation_status, sensor_data>>
           ELSE
               LET action == Lower(IF req.action = None THEN ""
                                   ELSE req.action[1].val)
                   duration == IF req.duration = None THEN DefaultDuration
                               ELSE req.duration[1]
               IN  /\ irrigation_status' =
                          IrrigationUpdate(irrigation_status, action, duration, now)
                   /\ sensor_data' = IrrigationSensorData(sensor_data, action)
                   /\ response' =
                        IF current_mode = "automatic" /\ ~IsMapping(weather) THEN
                          \* weather_data.get on what is not a dict, after
                          \* the update: the except branch
                          [Reply("irrigation", FALSE) EXCEPT
                              !.error = Some("AttributeError")]
                        ELSE
                          [Reply("irrigation", TRUE) EXCEPT
                              !.message = Some(IrrigationMessage(action, duration)),
                              !.action = Some(action),
                              !.ai_insight =
                                  Some(AiInsight(current_mode, action, weather))]
        /\ UNCHANGED <<current_mode, current_action, last_analysis_time, now,
                       last_eval, threads,
                       thresholds, persisted, chat_history>>

\* -------------------------------------------------------- /api/sensors
SensorKeys == DOMAIN InitialSensorData

\* MergeSensorData without the test "if key in sensor_data".
MergeSensorData_StoresEveryKey(sensor, items, t) ==
    [ [ k \in DOMAIN sensor \cup DOMAIN items |->
          IF k \in DOMAIN items THEN items[k] ELSE sensor[k] ]
      EXCEPT !.last_updated = t, !.connection_status = "connected" ]

\* MergeSensorData with the two assignments before the loop: a posted
\* last_updated or connection_status stays.
MergeSensorData_StampsFirst(sensor, items, t) ==
    LET stamped == [sensor EXCEPT !.last_updated = t,
                                  !.connection_status = "connected"]
    IN  [ k \in DOMAIN sensor |->
            IF k \in DOMAIN items THEN items[k] ELSE stamped[k] ]

\* "for key, value in data.items(): if key in sensor_data: ..." followed by
\* the two assignments of last_updated and connection_status.
MergeSensorData(sensor, items, t) ==
    [ [ k \in DOMAIN sensor |->
          IF k \in DOMAIN items THEN items[k] ELSE sensor[k] ]
      EXCEPT !.last_updated = t, !.connection_status = "connected" ]

\* The reading after a failed update, with the time stamp set before the
\* failure.
SensorDataOnFailure_Stamped(sensor, t) == [sensor EXCEPT !.last_updated = t]

\* The reading as the except branch of post_sensors finds it: data.items()
\* raises before the first assignment to system_state["sensor_data"].
SensorDataOnFailure(sensor, t) == sensor

PostSensors(payloads) ==
    \E data \in payloads :
        /\ IF ~data.dict THEN
               \* a non-empty JSON array is truthy and has no .items()
               /\ response' = [Reply("post_sensors", FALSE) EXCEPT
                      !.error = Some("AttributeError"),
                      !.message = Some(Msg("Sensor update failed but system continues operating"))]
               /\ sensor_data' = SensorDataOnFailure(sensor_data, now)
           ELSE
               /\ sensor_data' =
                      IF DOMAIN data.items # {}
                      THEN MergeSensorData(sensor_data, data.items, now)
                      ELSE sensor_data
               /\ response' = [Reply("post_sensors", TRUE) EXCEPT
                      !.message = Some(Msg("Sensor data updated successfully"))]
        /\ prior' = [NoPrior EXCEPT !.request = Some(data)]
        /\ UNCHANGED <<current_mode, irrigation_status, current_action,
                       last_analysis_time, now, last_eval, threads,
                       thresholds, persisted, chat_history>>

\* The reading as a read that changes nothing leaves it.
StampSensorData_PureRead(sensor, t) == sensor

\* system_state["sensor_data"]["last_updated"] = now, the first statement of
\* get_sensors.
StampSensorData(sensor, t) == [sensor EXCEPT !.last_updated = t]

GetSensors(snapshots) ==
    \E weather \in snapshots :
        LET sensor == StampSensorData(sensor_data, now)
            r == AnalyzeAndDisplayActions(sensor, weather, current_mode, now,
                                          current_action, last_analysis_time)
        IN  /\ sensor_data' = sensor
            /\ current_action' = r.current_action
            /\ last_analysis_time' = r.last_analysis_time
            /\ response' = [Reply("get_sensors", TRUE) EXCEPT
                   !.ai_analysis = Some(r.reply)]
            /\ prior' = [NoPrior EXCEPT
                   !.last_analysis_time = last_analysis_time,
                   !.eval = last_eval]
            /\ last_eval' = LogEval(current_mode, now, r.reply, last_eval)
            /\ UNCHANGED <<current_mode, irrigation_status, now, threads,
                       thresholds, persisted, chat_history>>

\* ------------------------------------------------------------- /api/mode
ManualGetReply ==
    [ InactiveReply EXCEPT !.message = "Manual mode - AI monitoring disabled" ]

ManualSetReply ==
    [ InactiveReply EXCEPT !.message = "Manual mode - You have full control" ]

GetMode(snapshots) ==
    \E weather \in snapshots :
        LET r == IF current_mode = "automatic"
                 THEN AnalyzeAndDisplayActions(sensor_data, weather, current_mode,
                          now, current_action, last_analysis_time)
                 ELSE [ reply |-> ManualGetReply,
                        current_action |-> current_action,
                        last_analysis_time |-> last_analysis_time ]
        IN  /\ current_action' = r.current_action
            /\ last_analysis_time' = r.last_analysis_time
            /\ response' = [Reply("get_mode", TRUE) EXCEPT
                   !.mode = Some(current_mode),
                   !.ai_analysis = Some(r.reply)]
            /\ prior' = [NoPrior EXCEPT
                   !.last_analysis_time = last_analysis_time,
                   !.eval = last_eval]
            /\ last_eval' = LogEval(current_mode, now, r.reply, last_eval)
            /\ UNCHANGED <<sensor_data, current_mode, irrigation_status, now,
                           threads, thresholds, persisted, chat_history>>

\* The mode of a request with one that is no mode when the body has none.
RequestedMode_MissingIsInvalid(req) ==
    IF req.mode = None THEN "" ELSE req.mode[1]

\* data.get('mode', 'automatic')
RequestedMode(req) == IF req.mode = None THEN "automatic" ELSE req.mode[1]

\* The else branch of set_mode with one that drops the cached analysis.
ManualModeResult_ClearsCache(cur, last) ==
    [ reply |-> ManualSetReply, current_action |-> None,
      last_analysis_time |-> None ]

\* The else branch of "if new_mode == 'automatic'": the reply, and the two
\* fields of automatic_ai, which it does not touch.
ManualModeResult(cur, last) ==
    [ reply |-> ManualSetReply, current_action |-> cur,
      last_analysis_time |-> last ]

\* The test of set_mode with one that lets every mode through.
IsValidMode_AcceptsAny(new_mode) == TRUE

\* new_mode in ['automatic', 'manual']
IsValidMode(new_mode) == new_mode \in {"automatic", "manual"}

SetMode(requests, snapshots) ==
    \E req \in requests, weather \in snapshots :
        LET new_mode == RequestedMode(req) IN
        /\ prior' = [NoPrior EXCEPT
               !.request = Some(req), !.time = now,
               !.last_analysis_time = last_analysis_time,
               !.eval = last_eval,
               !.repeat = /\ response.op = "set_mode"
                          /\ response.mode = Some(new_mode)]
        /\ IF IsValidMode(new_mode) THEN
               LET r == IF new_mode = "automatic"
                        THEN AnalyzeAndDisplayActions(sensor_data, weather,
                                 new_mode, now, current_action, last_analysis_time)
                        ELSE ManualModeResult(current_action, last_analysis_time)
               IN  /\ current_mode' = new_mode
                   /\ current_action' = r.current_action
                   /\ last_analysis_time' = r.last_analysis_time
                   /\ response' = [Reply("set_mode", TRUE) EXCEPT
                          !.mode = Some(new_mode),
                          !.ai_analysis = Some(r.reply)]
                   /\ last_eval' = LogEval(new_mode, now, r.reply, last_eval)
           ELSE
               /\ response' = [Reply("set_mode", FALSE) EXCEPT
                      !.error = Some("Invalid mode. Use 'automatic' or 'manual'")]
               /\ UNCHANGED <<current_mode, current_action, last_analysis_time,
                              last_eval>>
        /\ UNCHANGED <<sensor_data, irrigation_status, now, threads,
                       thresholds, persisted, chat_history>>

\* ------------------------------------------------ a direct evaluation
\* automatic_ai.analyze_and_display_actions(system_state["sensor_data"],
\* weather_data, system_state["current_mode"]) on its own, as the startup
\* test and the handlers call it, with any weather data.
Evaluate(snapshots) ==
    \E weather \in snapshots :
        LET r == AnalyzeAndDisplayActions(sensor_data, weather, current_mode,
                     now, current_action, last_analysis_time)
        IN  /\ current_action' = r.current_action
            /\ last_analysis_time' = r.last_analysis_time
            /\ response' = [Reply("evaluate", TRUE) EXCEPT
                   !.ai_analysis = Some(r.reply)]
            /\ prior' = [NoPrior EXCEPT
                   !.time = now,
                   !.last_analysis_time = last_analysis_time,
                   !.eval = last_eval,
                   !.weather = Some(weather)]
            /\ last_eval' = LogEval(current_mode, now, r.reply, last_eval)
            /\ UNCHANGED <<sensor_data, current_mode, irrigation_status, now,
                           threads, thresholds, persisted, chat_history>>

\* ------------------------------------------------------------------ inputs
\* JSON bodies posted to /api/irrigation/immediate.  action: None when the key
\* is absent, otherwise [str |-> is it a string, val |-> ...]; duration: None
\* when the key is absent.
StrVal(s) == Some([str |-> TRUE, val |-> s])
NonStrVal == Some([str |-> FALSE, val |-> "7"])
IrrigationRequest(a, d) == [action |-> a, duration |-> d]

\* JSON bodies posted to /api/mode: mode None when the key is absent.
ModeRequest(m) == [mode |-> m]

\* Bodies posted to /api/sensors: a JSON object (dict) or a JSON array.
DictPayload(items) == [dict |-> TRUE, items |-> items]
ListPayload == [dict |-> FALSE, items |-> [k \in {} |-> 0]]
EmptyPayload == DictPayload([k \in {} |-> 0])

\* What WeatherForecastSystem.get_real_weather_data can return: both remote
\* fetches yield None (their formatters do not exist, and every exception is
\* swallowed), so the snapshot is the local climate model's: a current record
\* and a 7-day forecast whose rain chances come from fixed tables.
WeatherSnapshot(c, f) ==
    [ current  |-> [rain_chance |-> c],
      forecast |-> [i \in 1..7 |-> [rain_chance |-> IF i = 1 THEN f ELSE 25]] ]

\* ------------------------------------------------ WeatherForecastSystem
\* What a request to a remote weather service can come to.
RemoteOutcomes == {"timeout", "connection_error", "status_401", "status_200"}

\* _try_openweathermap: requests.get raises (timeout=5, no connection), or
\* the status is not 200, or it is 200 and self._format_openweather_data,
\* which the class does not define, raises AttributeError; the bare except
\* swallows every exception and the method returns None.
TryOpenWeatherMap(outcome) ==
    IF outcome \in {"timeout", "connection_error"} THEN None
    ELSE IF outcome = "status_200" THEN None
    ELSE None

\* _try_weatherapi: the same, with self._format_weatherapi_data.
TryWeatherApi(outcome) ==
    IF outcome \in {"timeout", "connection_error"} THEN None
    ELSE IF outcome = "status_200" THEN None
    ELSE None

\* The rain chances of the conditions of _generate_realistic_local_data and
\* of _generate_7day_forecast.
CurrentRainChances == {25, 5, 15, 80, 35}
ForecastRainChances == {25, 5, 15, 80, 35, 90, 10}

\* days = ["Today", "Tomorrow", "Wed", "Thu", "Fri", "Sat", "Sun"]
Days == <<"Today", "Tomorrow", "Wed", "Thu", "Fri", "Sat", "Sun">>

\* _generate_7day_forecast: one record for each of days; draws[i] is the rain
\* chance of the condition that random.choice draws for day i.
Generate7DayForecast(draws) ==
    [ i \in 1..Len(Days) |-> [rain_chance |-> draws[i]] ]

\* _generate_realistic_local_data: c is the rain chance of the condition
\* drawn for the current record.
GenerateRealisticLocalData(c, draws) ==
    [ current  |-> [rain_chance |-> c],
      forecast |-> Generate7DayForecast(draws) ]

\* bool(weather_data) in "if weather_data:"
Truthy(weather_data) == weather_data # None /\ DOMAIN weather_data # {}

\* get_real_weather_data without the local climate model: the first remote
\* service's answer, whatever it is.
GetRealWeatherData_RemoteOnly(first, second, c, draws) ==
    TryOpenWeatherMap(first)

\* get_real_weather_data: the first of the three results that is truthy.
\* The calls raise nothing, so the except branch is not taken.
GetRealWeatherData(first, second, c, draws) ==
    LET weather_apis == << TryOpenWeatherMap(first), TryWeatherApi(second),
                           GenerateRealisticLocalData(c, draws) >>
    IN  IF \E i \in 1..3 : Truthy(weather_apis[i])
        THEN weather_apis[CHOOSE i \in 1..3 :
                 /\ Truthy(weather_apis[i])
                 /\ \A j \in 1..(i - 1) : ~Truthy(weather_apis[j])]
        ELSE GenerateRealisticLocalData(c, draws)

\* GET /api/weather: the reply carries the weather data.  The fetch raises
\* nothing, so the except branch is not taken.
GetWeather(fetches) ==
    \E weather_data \in fetches :
        /\ response' = [Reply("get_weather", TRUE) EXCEPT
               !.data = Some(weather_data)]
        /\ prior' = NoPrior
        /\ UNCHANGED <<sensor_data, current_mode, irrigation_status,
                       current_action, last_analysis_time, now, last_eval,
                       threads, thresholds, persisted, chat_history>>

\* ------------------------------------------------------------ /api/chat
\* The bodies posted to /api/chat are JSON objects (dict) or other JSON
\* values; message is None when the body has no such key (or is empty),
\* otherwise [str |-> is it a string, val |-> ...]; language likewise.
ChatRequest(method, dict, message, language) ==
    [ method |-> method, dict |-> dict, message |-> message,
      language |-> language ]

\* str.strip() on the message strings of the requests.
Strip(s) == IF s = "   " THEN "" ELSE s

\* EmbeddedAgroSmartAI.generate_response: the template that the keywords of
\* the query select ('rain' is a weather keyword; a query without keyword
\* gets the general template, an empty one the welcome message).
GenerateResponse(query) ==
    IF Strip(query) = "" THEN "welcome"
    ELSE IF query = "rain today?" THEN "weather"
    ELSE "general"

\* What the call of generate_response comes to: its result, or an exception.
GenerationOutcomes == {"generated", "raised"}

\* "if not user_message: ... else: try: ... except ...": the response.
ChatResponse(user_message, outcome) ==
    IF user_message = "" THEN "welcome"
    ELSE IF outcome = "generated" THEN GenerateResponse(user_message)
    ELSE "fallback"

\* The number of the request that stored the latest entry (history: the
\* field n of an entry is not in the program).
Arrivals(history) ==
    IF history = <<>> THEN 0 ELSE history[Len(history)].n

\* chat_entry as the request at time t builds it.
ChatEntry(user_message, response_text, language, t, n) ==
    [ timestamp |-> t, user_message |-> user_message,
      ai_response |-> response_text, language |-> language,
      success |-> TRUE, n |-> n ]

\* "Keep last 100 conversations": chat_history[-100:] when it is longer.
KeepLast(history) ==
    IF Len(history) > HistoryLimit
    THEN SubSeq(history, Len(history) - HistoryLimit + 1, Len(history))
    ELSE history

\* The history after a request whose entry is stored.
StoreChat(history, entry) == KeepLast(Append(history, entry))

\* The whole handler.  OPTIONS is answered at once.  A body that is not an
\* object (data.get) or a message that is not a string (.strip()) raises
\* AttributeError before the entry is built: the outer except branch
\* answers with success and the fixed text, and stores nothing.
Chat(requests) ==
    \E req \in requests, outcome \in GenerationOutcomes :
        /\ prior' = [NoPrior EXCEPT !.request = Some(req), !.time = now]
        /\ IF req.method = "OPTIONS" THEN
               /\ response' = Reply("chat_options", TRUE)
               /\ UNCHANGED chat_history
           ELSE IF \/ ~req.dict
                   \/ req.message # None /\ ~req.message[1].str
           THEN
               /\ response' = [Reply("chat", TRUE) EXCEPT
                      !.data = Some("outer fallback")]
               /\ UNCHANGED chat_history
           ELSE
               LET user_message == IF req.message = None THEN ""
                                   ELSE Strip(req.message[1].val)
                   language == IF req.language = None THEN "en"
                               ELSE req.language[1]
                   text == ChatResponse(user_message, outcome)
                   entry == ChatEntry(user_message, text, language, now,
                                      Arrivals(chat_history) + 1)
               IN  /\ Arrivals(chat_history) < MaxChats
                   /\ chat_history' = StoreChat(chat_history, entry)
                   /\ response' = [Reply("chat", TRUE) EXCEPT
                          !.data = Some(text)]
        /\ UNCHANGED <<sensor_data, current_mode, irrigation_status,
                       current_action, last_analysis_time, now, last_eval,
                       threads, thresholds, persisted>>

\* ------------------------------------------------------- the job store
\* system_state["irrigation_status"]["scheduled_jobs"] is declared as an
\* empty list and no handler of the server touches it.  The operations on
\* it are those of the design document's IrrigationController (section
\* 4.4): CreateJob, DeleteJob, ListJobs and the scheduler.

\* The ids a job can get: as many as the store holds jobs.
JobIds == 1..MaxJobs

\* The ids of the jobs in the store.
JobIdsOf(jobs) == { jobs[i].id : i \in DOMAIN jobs }

\* "validates durationMinutes > 0 and at least one weekday"
ValidJobSpec(spec) == spec.duration > 0 /\ spec.days # {}

\* IrrigationJob: { id, durationMinutes, daysOfWeek, timeOfDay, createdAt }
NewJob(id, spec, t) ==
    [ id |-> id, duration |-> spec.duration, days |-> spec.days,
      time |-> spec.time, created_at |-> t ]

\* The store without the job of this id and without the jobs behind it.
RemoveJob_Truncates(jobs, id) ==
    SubSeq(jobs, 1, (CHOOSE i \in DOMAIN jobs : jobs[i].id = id) - 1)

\* The store without the job of this id.
RemoveJob(jobs, id) == SelectSeq(jobs, LAMBDA j : j.id # id)

\* ListJobs(): all jobs, in no particular order.
ListedJobs(jobs) == { jobs[i] : i \in DOMAIN jobs }

\* CreateJob(spec): a spec that is not valid is refused; a valid one gets an
\* id that no job of the store has and is added to the store.  The reply's
\* data is the id.
CreateJob(specs) ==
    \E spec \in specs :
        /\ prior' = [NoPrior EXCEPT !.request = Some(spec), !.time = now,
                                    !.irrigation_status = irrigation_status]
        /\ IF ~ValidJobSpec(spec) THEN
               /\ response' = [Reply("create_job", FALSE) EXCEPT
                      !.error = Some("ValidationError")]
               /\ UNCHANGED irrigation_status
           ELSE
               \E id \in JobIds \ JobIdsOf(irrigation_status.scheduled_jobs) :
                   /\ irrigation_status' = [irrigation_status EXCEPT
                          !.scheduled_jobs = Append(@, NewJob(id, spec, now))]
                   /\ response' = [Reply("create_job", TRUE) EXCEPT
                          !.data = Some(id)]
        /\ UNCHANGED <<sensor_data, current_mode, current_action,
                       last_analysis_time, now, last_eval, threads,
                       thresholds, persisted, chat_history>>

\* DeleteJob(id): "fails with NotFound if absent".
DeleteJob(ids) ==
    \E id \in ids :
        /\ prior' = [NoPrior EXCEPT !.request = Some(id), !.time = now,
                                    !.irrigation_status = irrigation_status]
        /\ IF id \notin JobIdsOf(irrigation_status.scheduled_jobs) THEN
               /\ response' = [Reply("delete_job", FALSE) EXCEPT
                      !.error = Some("NotFoundError")]
               /\ UNCHANGED irrigation_status
           ELSE
               /\ irrigation_status' = [irrigation_status EXCEPT
                      !.scheduled_jobs = RemoveJob(@, id)]
               /\ response' = Reply("delete_job", TRUE)
        /\ UNCHANGED <<sensor_data, current_mode, current_action,
                       last_analysis_time, now, last_eval, threads,
                       thresholds, persisted, chat_history>>

\* ListJobs(): the reply's data is the set of jobs.
ListJobs ==
    /\ response' = [Reply("list_jobs", TRUE) EXCEPT
           !.data = Some(ListedJobs(irrigation_status.scheduled_jobs))]
    /\ prior' = NoPrior
    /\ UNCHANGED <<sensor_data, current_mode, irrigation_status,
                   current_action, last_analysis_time, now, last_eval,
                   threads, thresholds, persisted, chat_history>>

\* daysOfWeek and timeOfDay (the minute of the day) of an instant; the
\* clock starts on a Monday at midnight.
Weekdays == <<"Mon", "Tue", "Wed", "Thu", "Fri", "Sat", "Sun">>
WeekdayOf(t) == Weekdays[((t \div SecondsPerDay) % Len(Weekdays)) + 1]
MinuteOf(t) == (t % SecondsPerDay) \div 60

\* "current time matches daysOfWeek + timeOfDay"
Due(job, t) == WeekdayOf(t) \in job.days /\ MinuteOf(t) = job.time

\* What the scheduler does with a job that is due: "it re-reads current
\* IrrigationState - if Stopped, it transitions to Running with the job's
\* duration"; otherwise it skips the job.  The irrigation status of
\* system_state tells Stopped from Running by its running flag.
ScheduledStatus(status, job, t) ==
    IF ~status.running
    THEN [status EXCEPT !.running = TRUE, !.start_time = Some(t),
                        !.duration = job.duration]
    ELSE status

\* One evaluation of the scheduler loop on a job that is due.  It is no
\* request: the latest reply stays.
SchedulerCheck ==
    \E i \in DOMAIN irrigation_status.scheduled_jobs :
        LET job == irrigation_status.scheduled_jobs[i] IN
        /\ Due(job, now)
        /\ irrigation_status' = ScheduledStatus(irrigation_status, job, now)
        /\ prior' = [prior EXCEPT
               !.scheduler = Some([found |-> irrigation_status, job |-> job])]
        /\ UNCHANGED <<sensor_data, current_mode, current_action,
                       last_analysis_time, now, response, last_eval, threads,
                       thresholds, persisted, chat_history>>

\* ------------------------------------------- the threshold configuration
\* The server has no threshold configuration: the analysis compares with
\* literals.  The operations below are those of the design document's
\* ThresholdConfig (sections 3 and 6): SetThresholds, GetThresholds, and the
\* load at startup.
ThresholdKeys == DOMAIN DefaultThresholds

\* "unknown keys in an update are rejected, known keys are merged"
MergeThresholds(config, partial) ==
    [ k \in DOMAIN config |->
        IF k \in DOMAIN partial THEN partial[k] ELSE config[k] ]

\* "loaded wholesale at startup (falling back to documented defaults if
\* absent)"
LoadThresholds(stored) ==
    IF stored = None THEN DefaultThresholds ELSE stored[1]

\* SetThresholds(partial): an update with an unknown key is refused.  A
\* successful update rewrites the stored mapping; when the save fails the
\* update stays in memory and the reply says so.
SetThresholds(updates) ==
    \E partial \in updates, saved \in BOOLEAN :
        /\ prior' = [NoPrior EXCEPT !.request = Some(partial), !.time = now]
        /\ IF ~(DOMAIN partial \subseteq ThresholdKeys) THEN
               /\ response' = [Reply("set_thresholds", FALSE) EXCEPT
                      !.error = Some("ValidationError")]
               /\ UNCHANGED <<thresholds, persisted>>
           ELSE
               /\ thresholds' = MergeThresholds(thresholds, partial)
               /\ persisted' = IF saved THEN Some(thresholds') ELSE persisted
               /\ response' = [Reply("set_thresholds", TRUE) EXCEPT
                      !.data = Some(thresholds'),
                      !.error = IF saved THEN None
                                ELSE Some("PersistenceError")]
        /\ UNCHANGED <<sensor_data, current_mode, irrigation_status,
                       current_action, last_analysis_time, now, last_eval,
                       threads, chat_history>>

\* GetThresholds(): the reply's data is the configuration in memory.
GetThresholds ==
    /\ response' = [Reply("get_thresholds", TRUE) EXCEPT
           !.data = Some(thresholds)]
    /\ prior' = NoPrior
    /\ UNCHANGED <<sensor_data, current_mode, irrigation_status,
                   current_action, last_analysis_time, now, last_eval,
                   threads, thresholds, persisted, chat_history>>

\* The server is started again: system_state and automatic_ai are as the
\* module creates them, and the thresholds are loaded from storage.
Restart ==
    /\ sensor_data' = [InitialSensorData EXCEPT !.last_updated = now]
    /\ current_mode' = "automatic"
    /\ irrigation_status' = InitialIrrigationStatus
    /\ current_action' = None
    /\ last_analysis_time' = None
    /\ response' = Reply("restart", TRUE)
    /\ prior' = NoPrior
    /\ last_eval' = None
    /\ threads' = [w \in Workers |-> Idle]
    /\ thresholds' = LoadThresholds(persisted)
    /\ chat_history' = <<>>
    /\ UNCHANGED <<now, persisted>>

\* The instants at which requests arrive.
Instants == { 15 * k : k \in 0..MaxTicks }

\* ------------------------------------------- the handlers, step by step
\* The server runs each handler on its own thread and the handlers take no
\* lock, so two handlers interleave between any two accesses to system_state
\* or automatic_ai.  Below, a step of a thread is one such access together
\* with the local computation that follows it.  Every interleaving of these
\* steps is an execution of the server (the interpreter can switch threads
\* more often still, within a step).

\* The order in which _perform_intelligent_analysis reads the reading, which
\* is the dict system_state["sensor_data"] itself, not a copy.
ReadOrder ==
    <<"temperature", "humidity", "soil_moisture", "water_level", "rain_detected">>

\* The body a device posts while the threads run, and the order of its keys.
ThreadPayload == [soil_moisture |-> Num(18), water_level |-> Num(90)]
PayloadOrder == <<"soil_moisture", "water_level">>

\* f with key k bound to v.
With(f, k, v) ==
    [x \in DOMAIN f \cup {k} |-> IF x = k THEN v ELSE f[x]]

\* GET /api/sensors, from its first statement to current_time = now():
\* last_updated is written, the mode is read, the manual reply returns.
GetBegin(w) ==
    /\ threads[w].pc = "idle"
    /\ sensor_data' = [sensor_data EXCEPT !.last_updated = now]
    /\ IF current_mode # "automatic" THEN
           /\ response' = [Reply("get_sensors", TRUE) EXCEPT
                  !.ai_analysis = Some(InactiveReply)]
           /\ UNCHANGED threads
       ELSE
           /\ threads' = [threads EXCEPT ![w] =
                  [Idle EXCEPT !.pc = "check", !.current_time = now]]
           /\ UNCHANGED response
    /\ UNCHANGED <<thresholds, persisted, chat_history>>
    /\ UNCHANGED <<current_mode, irrigation_status, current_action,
                   last_analysis_time, now, prior, last_eval>>

\* "Check if it's time for new analysis": last_analysis_time is read, and
\* current_action for the throttled reply.
GetCheck(w) ==
    /\ threads[w].pc = "check"
    /\ LET t == threads[w].current_time IN
       IF Throttled(t, last_analysis_time) THEN
           /\ response' = [Reply("get_sensors", TRUE) EXCEPT
                  !.ai_analysis = Some(ThrottledReply(
                      TimedeltaSeconds(t, last_analysis_time[1]),
                      current_action))]
           /\ threads' = [threads EXCEPT ![w] = Idle]
       ELSE
           /\ threads' = [threads EXCEPT ![w].pc = "read", ![w].i = 1]
           /\ UNCHANGED response
    /\ UNCHANGED <<thresholds, persisted, chat_history>>
    /\ UNCHANGED <<sensor_data, current_mode, irrigation_status, current_action,
                   last_analysis_time, now, prior, last_eval>>

\* sensor_data.get(key): one field of the shared reading is read; after the
\* last one the analysis is computed from what was read.
GetRead(w, snapshots) ==
    /\ threads[w].pc = "read"
    /\ \E weather \in snapshots :
          LET key == ReadOrder[threads[w].i]
              seen == With(threads[w].seen, key, sensor_data[key])
          IN  threads' = [threads EXCEPT ![w] =
                  IF threads[w].i < Len(ReadOrder)
                  THEN [@ EXCEPT !.seen = seen, !.i = @ + 1]
                  ELSE [@ EXCEPT !.seen = seen, !.pc = "store_action",
                          !.analysis = Some(PerformIntelligentAnalysis(
                                seen, weather, threads[w].current_time))]]
    /\ UNCHANGED <<thresholds, persisted, chat_history>>
    /\ UNCHANGED <<sensor_data, current_mode, irrigation_status, current_action,
                   last_analysis_time, now, response, prior, last_eval>>

\* self.current_action = analysis
GetStoreAction(w) ==
    /\ threads[w].pc = "store_action"
    /\ current_action' = threads[w].analysis
    /\ threads' = [threads EXCEPT ![w].pc = "store_time"]
    /\ UNCHANGED <<thresholds, persisted, chat_history>>
    /\ UNCHANGED <<sensor_data, current_mode, irrigation_status,
                   last_analysis_time, now, response, prior, last_eval>>

\* self.last_analysis_time = current_time, and the reply.
GetStoreTime(w) ==
    /\ threads[w].pc = "store_time"
    /\ last_analysis_time' = Some(threads[w].current_time)
    /\ response' = [Reply("get_sensors", TRUE) EXCEPT
           !.ai_analysis = Some(FreshReply(threads[w].analysis[1]))]
    /\ threads' = [threads EXCEPT ![w] = Idle]
    /\ UNCHANGED <<thresholds, persisted, chat_history>>
    /\ UNCHANGED <<sensor_data, current_mode, irrigation_status, current_action,
                   now, prior, last_eval>>

\* POST /api/sensors with ThreadPayload: the body is parsed and is truthy.
PostBegin(w) ==
    /\ threads[w].pc = "idle"
    /\ threads' = [threads EXCEPT ![w] = [Idle EXCEPT !.pc = "merge", !.i = 1]]
    /\ UNCHANGED <<thresholds, persisted, chat_history>>
    /\ UNCHANGED <<sensor_data, current_mode, irrigation_status, current_action,
                   last_analysis_time, now, response, prior, last_eval>>

\* One turn of "for key, value in data.items()".
PostMerge(w) ==
    /\ threads[w].pc = "merge"
    /\ LET key == PayloadOrder[threads[w].i] IN
          sensor_data' = IF key \in DOMAIN sensor_data
                         THEN [sensor_data EXCEPT ![key] = ThreadPayload[key]]
                         ELSE sensor_data
    /\ threads' = [threads EXCEPT ![w] =
           IF threads[w].i < Len(PayloadOrder)
           THEN [@ EXCEPT !.i = @ + 1]
           ELSE [@ EXCEPT !.pc = "stamp"]]
    /\ UNCHANGED <<thresholds, persisted, chat_history>>
    /\ UNCHANGED <<current_mode, irrigation_status, current_action,
                   last_analysis_time, now, response, prior, last_eval>>

\* system_state["sensor_data"]["last_updated"] = now()
PostStamp(w) ==
    /\ threads[w].pc = "stamp"
    /\ sensor_data' = [sensor_data EXCEPT !.last_updated = now]
    /\ threads' = [threads EXCEPT ![w].pc = "connect"]
    /\ UNCHANGED <<thresholds, persisted, chat_history>>
    /\ UNCHANGED <<current_mode, irrigation_status, current_action,
                   last_analysis_time, now, response, prior, last_eval>>

\* system_state["sensor_data"]["connection_status"] = "connected", and the
\* reply.
PostConnect(w) ==
    /\ threads[w].pc = "connect"
    /\ sensor_data' = [sensor_data EXCEPT !.connection_status = "connected"]
    /\ response' = [Reply("post_sensors", TRUE) EXCEPT
           !.message = Some(Msg("Sensor data updated successfully"))]
    /\ threads' = [threads EXCEPT ![w] = Idle]
    /\ UNCHANGED <<thresholds, persisted, chat_history>>
    /\ UNCHANGED <<current_mode, irrigation_status, current_action,
                   last_analysis_time, now, prior, last_eval>>

\* ------------------------------------- the irrigation controller's requests
\* Every kind of irrigation request, at three instants 15 s apart, with a
\* device that reports its pump and a client that switches modes.
IrrigationRequests ==
    { IrrigationRequest(StrVal("start"), d) :
          d \in {None, Some(-5), Some(0), Some(15)} }
    \cup { IrrigationRequest(a, None) :
          a \in { StrVal("stop"), StrVal("STOP"), StrVal("pause"),
                  StrVal("resume"), StrVal("flood"), None, NonStrVal } }

IrrigationNext ==
    \/ Tick(Instants)
    \/ IrrigationImmediate(IrrigationRequests,
                           {WeatherSnapshot(5, 35), WeatherSnapshot(80, 35)})
    \/ PostSensors({ DictPayload([pump_running |-> TRUE, firmware |-> 2]) })
    \/ GetSensors({WeatherSnapshot(5, 35)})
    \/ GetMode({WeatherSnapshot(5, 35)})
    \/ SetMode({ModeRequest(Some("manual")), ModeRequest(Some("automatic"))},
               {WeatherSnapshot(5, 35)})

SpecIrrigation == Init /\ [][IrrigationNext]_vars

\* ---------------------------------------------- the assessment's requests
\* Evaluations 15 s apart and a day later, on four readings and two
\* forecasts, in both modes.
AssessmentSnapshots == {WeatherSnapshot(5, 5), WeatherSnapshot(80, 90)}

AssessmentNext ==
    \/ Tick(Instants \cup {SecondsPerDay, SecondsPerDay + 15})
    \/ IrrigationImmediate({ IrrigationRequest(StrVal("stop"), None),
                             IrrigationRequest(StrVal("flood"), None) },
                           AssessmentSnapshots)
    \/ PostSensors({ DictPayload([soil_moisture |-> Num(18), water_level |-> Num(90),
                                  connection_status |-> "disconnected"]),
                     DictPayload([temperature |-> Num(35), rain_detected |-> TRUE]),
                     EmptyPayload, ListPayload })
    \/ GetSensors(AssessmentSnapshots)
    \/ GetMode(AssessmentSnapshots)
    \/ SetMode({ ModeRequest(m) :
                    m \in {None, Some("automatic"), Some("manual"), Some("eco")} },
               AssessmentSnapshots)

SpecAssessment == Init /\ [][AssessmentNext]_vars

\* ------------------------------------------------- the device's updates
\* Bodies posted to /api/sensors: empty, with keys the reading does not have,
\* with a recognized key among them, with values for the two fields the
\* handler sets itself, and a JSON array.
SensorPayloads ==
    { EmptyPayload,
      DictPayload([firmware |-> 2, battery |-> 80]),
      DictPayload([soil_moisture |-> Num(18), firmware |-> 2]),
      DictPayload([connection_status |-> "disconnected", last_updated |-> -1]),
      ListPayload }

SensorsNext ==
    \/ Tick(Instants)
    \/ PostSensors(SensorPayloads)
    \/ GetSensors({WeatherSnapshot(5, 35)})

SpecSensors == Init /\ [][SensorsNext]_vars

\* ----------------------------------------- irrigation in rain, announced
\* A rain sensor that switches on and off, evaluations on a dry and on a
\* wet forecast, both modes, and irrigations started and stopped.
AdvisoryNext ==
    \/ Tick(Instants)
    \/ PostSensors({ DictPayload([rain_detected |-> TRUE]),
                     DictPayload([rain_detected |-> FALSE]) })
    \/ GetSensors(AssessmentSnapshots)
    \/ SetMode({ModeRequest(Some("manual")), ModeRequest(Some("automatic"))},
               AssessmentSnapshots)
    \/ IrrigationImmediate({ IrrigationRequest(StrVal("start"), None),
                             IrrigationRequest(StrVal("START"), Some(15)),
                             IrrigationRequest(StrVal("stop"), None) },
                           AssessmentSnapshots)

SpecAdvisory == Init /\ [][AdvisoryNext]_vars

\* ------------------------------------------- a device that says it is gone
\* Updates that carry a connection_status of their own, an empty one and a
\* JSON array, between reads, mode requests and irrigation requests.
ConnectionNext ==
    \/ Tick(Instants)
    \/ PostSensors({ DictPayload([connection_status |-> "disconnected"]),
                     DictPayload([connection_status |-> "offline",
                                  soil_moisture |-> Num(18)]),
                     EmptyPayload, ListPayload })
    \/ GetSensors({WeatherSnapshot(5, 35)})
    \/ GetMode({WeatherSnapshot(5, 35)})
    \/ SetMode({ModeRequest(Some("manual")), ModeRequest(Some("automatic"))},
               {WeatherSnapshot(5, 35)})
    \/ IrrigationImmediate({ IrrigationRequest(StrVal("start"), None),
                             IrrigationRequest(StrVal("stop"), None) },
                           {WeatherSnapshot(5, 35)})

SpecConnection == Init /\ [][ConnectionNext]_vars

\* ------------------------------------------------- requests that fail
\* Every handler, with the bodies it refuses among those it accepts: a JSON
\* array for the reading, a mode that does not exist, an action that is a
\* number.
FailuresNext ==
    \/ Tick(Instants)
    \/ PostSensors({ DictPayload([soil_moisture |-> Num(18)]), ListPayload })
    \/ GetSensors({WeatherSnapshot(5, 35)})
    \/ GetMode({WeatherSnapshot(5, 35)})
    \/ SetMode({ ModeRequest(m) : m \in {Some("automatic"), Some("manual"),
                                          Some("eco")} },
               {WeatherSnapshot(5, 35)})
    \/ IrrigationImmediate({ IrrigationRequest(StrVal("start"), Some(15)),
                             IrrigationRequest(StrVal("stop"), None),
                             IrrigationRequest(NonStrVal, Some(15)) },
                           {WeatherSnapshot(5, 35)})

SpecFailures == Init /\ [][FailuresNext]_vars

\* ------------------------------------------------ the weather's fetches
\* Week-long draws of the forecast: a wet, a dry and a mixed week.
ForecastDraws ==
    { <<90, 80, 90, 80, 90, 80, 90>>, <<5, 10, 5, 10, 5, 10, 5>>,
      <<25, 5, 15, 80, 35, 90, 10>> }

\* Every fetch: each remote service fails or answers in every way, and the
\* local model draws any current condition and one of the weeks above.
WeatherFetches ==
    { GetRealWeatherData(first, second, c, draws) :
        first \in RemoteOutcomes, second \in RemoteOutcomes,
        c \in CurrentRainChances, draws \in ForecastDraws }

WeatherNext ==
    \/ Tick(Instants)
    \/ GetWeather(WeatherFetches)
    \/ GetSensors(WeatherFetches)
    \/ GetMode(WeatherFetches)
    \/ SetMode({ModeRequest(Some("manual")), ModeRequest(Some("automatic"))},
               WeatherFetches)
    \/ IrrigationImmediate({ IrrigationRequest(StrVal("start"), Some(15)),
                             IrrigationRequest(StrVal("stop"), None) },
                           WeatherFetches)

SpecWeather == Init /\ [][WeatherNext]_vars

\* ---------------------------------------------------- the jobs' requests
\* Job specs: two that are valid, one with a duration of 0, one with no
\* weekday.
JobSpecs ==
    { [duration |-> 10, days |-> {"Mon"}, time |-> 360],
      [duration |-> 20, days |-> {"Tue", "Thu"}, time |-> 1080],
      [duration |-> 0, days |-> {"Mon"}, time |-> 360],
      [duration |-> 10, days |-> {}, time |-> 360] }

\* Jobs created, listed and deleted (by an id of the store's, or by 0, which
\* no job has) while irrigations start and stop.
JobsNext ==
    \/ CreateJob(JobSpecs)
    \/ DeleteJob(JobIds \cup {0})
    \/ ListJobs
    \/ IrrigationImmediate({ IrrigationRequest(StrVal("start"), Some(15)),
                             IrrigationRequest(StrVal("stop"), None) },
                           {WeatherSnapshot(5, 35)})

SpecJobs == Init /\ [][JobsNext]_vars

\* ------------------------------------------------------- the scheduler
\* A job for every Monday at midnight, which is due at the first instants,
\* and one for Tuesdays, which is not; irrigations started, paused and
\* stopped by hand in between.
SchedulerNext ==
    \/ Tick(Instants)
    \/ CreateJob({ [duration |-> 20, days |-> {"Mon"}, time |-> 0],
                   [duration |-> 10, days |-> {"Tue"}, time |-> 0] })
    \/ SchedulerCheck
    \/ IrrigationImmediate({ IrrigationRequest(StrVal("start"), Some(15)),
                             IrrigationRequest(StrVal("pause"), None),
                             IrrigationRequest(StrVal("stop"), None) },
                           {WeatherSnapshot(5, 35)})

SpecScheduler == Init /\ [][SchedulerNext]_vars

\* ----------------------------------------------- the thresholds' requests
\* Updates of one and of two known keys and of an unknown key, a soil
\* moisture between the new and the old critical threshold, evaluations and
\* restarts.
ThresholdsNext ==
    \/ Tick(Instants)
    \/ SetThresholds({ [soilMoistureCritical |-> 22],
                       [waterLevelMin |-> 180, temperatureMax |-> 30],
                       [soilMoistureCritical |-> 22, pumpPressure |-> 3] })
    \/ GetThresholds
    \/ Restart
    \/ PostSensors({ DictPayload([soil_moisture |-> Num(24)]),
                     DictPayload([soil_moisture |-> Num(18)]) })
    \/ Evaluate({WeatherSnapshot(5, 35)})

SpecThresholds == Init /\ [][ThresholdsNext]_vars

\* --------------------------------------- evaluations around a manual period
\* Direct evaluations and mode requests (for either mode and without a mode)
\* 15 s apart, with a device update that changes what a recomputation would
\* find.
CacheNext ==
    \/ Tick(Instants)
    \/ PostSensors({ DictPayload([soil_moisture |-> Num(18)]) })
    \/ SetMode({ ModeRequest(m) :
                    m \in {None, Some("manual"), Some("automatic")} },
               {WeatherSnapshot(5, 35)})
    \/ Evaluate({WeatherSnapshot(5, 35), WeatherSnapshot(80, 90)})

SpecCache == Init /\ [][CacheNext]_vars

\* ------------------------------------------------------ the chat's requests
\* Messages: none (in either language), blank, a question, and a number; a
\* body that is a JSON array; a preflight request.
ChatRequests ==
    { ChatRequest("POST", TRUE, m, None) :
          m \in { None, StrVal("   "), StrVal("rain today?"), NonStrVal } }
    \cup { ChatRequest("POST", TRUE, None, Some("ne")),
           ChatRequest("POST", FALSE, None, None),
           ChatRequest("OPTIONS", TRUE, None, None) }

\* The history after k requests without a message, numbered so that the
\* requests after the start count from 1.
PastHistory(k) ==
    [ i \in 1..k |-> ChatEntry("", "welcome", "en", 0, i - k) ]

\* The server at its start, or PastChats requests later.
ChatInit ==
    /\ sensor_data = InitialSensorData
    /\ current_mode = "automatic"
    /\ irrigation_status = InitialIrrigationStatus
    /\ current_action = None
    /\ last_analysis_time = None
    /\ now = 0
    /\ response = Reply("none", TRUE)
    /\ prior = NoPrior
    /\ last_eval = None
    /\ threads = [w \in Workers |-> Idle]
    /\ thresholds = DefaultThresholds
    /\ persisted = None
    /\ chat_history \in {<<>>, PastHistory(PastChats)}

ChatNext ==
    \/ Tick(Instants)
    \/ Chat(ChatRequests)

SpecChat == ChatInit /\ [][ChatNext]_vars

\* ------------------------------------------- evaluations of any reading
\* Readings on either side of every threshold of the analysis, with a soil
\* moisture or a temperature that a device posted as text.
Readings ==
    { [InitialSensorData EXCEPT
           !.soil_moisture = soil, !.temperature = temp, !.water_level = water,
           !.humidity = hum, !.rain_detected = rain] :
        soil \in {Num(18), Num(24), Num(25), Num(42), Text("wet")},
        temp \in {Num(10), Num(25), Num(35), Text("hot")},
        water \in {Num(90), Num(149), Num(150), Num(245)},
        hum \in {Num(40), Num(90)},
        rain \in BOOLEAN }

\* The weather data: two snapshots of the local climate model, and None.
EvaluateSnapshots == {WeatherSnapshot(5, 5), WeatherSnapshot(80, 90), None}

\* The reading is any of Readings (post_sensors stores whatever is posted).
EvaluateInit ==
    /\ sensor_data \in Readings
    /\ current_mode = "automatic"
    /\ irrigation_status = InitialIrrigationStatus
    /\ current_action = None
    /\ last_analysis_time = None
    /\ now = 0
    /\ response = Reply("none", TRUE)
    /\ prior = NoPrior
    /\ last_eval = None
    /\ threads = [w \in Workers |-> Idle]
    /\ thresholds = DefaultThresholds
    /\ persisted = None
    /\ chat_history = <<>>

EvaluateNext ==
    \/ Tick(Instants)
    \/ Evaluate(EvaluateSnapshots)

SpecEvaluate == EvaluateInit /\ [][EvaluateNext]_vars

\* ----------------------------------------- evaluations at the band limits
\* Readings at and next to the limits of the temperature and water level
\* bands, with a soil moisture in each of its bands.
BandReadings ==
    { [InitialSensorData EXCEPT
           !.soil_moisture = soil, !.temperature = temp, !.water_level = water] :
        soil \in {Num(18), Num(30), Num(42)},
        temp \in {Num(14), Num(15), Num(32), Num(33)},
        water \in {Num(149), Num(150), Num(199), Num(200)} }

BandsInit ==
    /\ sensor_data \in BandReadings
    /\ current_mode = "automatic"
    /\ irrigation_status = InitialIrrigationStatus
    /\ current_action = None
    /\ last_analysis_time = None
    /\ now = 0
    /\ response = Reply("none", TRUE)
    /\ prior = NoPrior
    /\ last_eval = None
    /\ threads = [w \in Workers |-> Idle]
    /\ thresholds = DefaultThresholds
    /\ persisted = None
    /\ chat_history = <<>>

SpecBands == BandsInit /\ [][EvaluateNext]_vars

\* ------------------------------------------------- two concurrent requests
\* Two threads, each handling GET /api/sensors or POST /api/sensors requests
\* one after the other, at three instants 15 s apart.
ThreadsNext ==
    \/ Tick(Instants)
    \/ \E w \in Workers : GetBegin(w)
    \/ \E w \in Workers : GetCheck(w)
    \/ \E w \in Workers : GetRead(w, {WeatherSnapshot(5, 35)})
    \/ \E w \in Workers : GetStoreAction(w)
    \/ \E w \in Workers : GetStoreTime(w)
    \/ \E w \in Workers : PostBegin(w)
    \/ \E w \in Workers : PostMerge(w)
    \/ \E w \in Workers : PostStamp(w)
    \/ \E w \in Workers : PostConnect(w)

SpecThreads == Init /\ [][ThreadsNext]_vars

\* =================================================== irrigation controller
\* The latest request was an irrigation request for this action (a string,
\* in any letter case).
Requested(a) ==
    /\ response.op = "irrigation"
    /\ prior.request # None
    /\ prior.request[1].action # None
    /\ prior.request[1].action[1].str
    /\ Lower(prior.request[1].action[1].val) = a

\* data.get('duration', 10) of the latest request.
RequestedDuration ==
    IF prior.request[1].duration = None THEN DefaultDuration
    ELSE prior.request[1].duration[1]

\* Stopped: not running, no start time, no duration.
Stopped(status) ==
    /\ status.running = FALSE
    /\ status.start_time = None
    /\ status.duration = 0

\* C1: a stop request always succeeds and leaves the controller Stopped
\* (not running, start time cleared, duration 0), whatever state it found
\* (Stopped, Running with any duration), with the scheduled jobs as they were;
\* and a stop request that finds the controller as a stop leaves it, Stopped,
\* leaves the irrigation status exactly as it found it.
C1_StopIsIdempotent ==
    Requested("stop") =>
        /\ response.success
        /\ Stopped(irrigation_status)
        /\ irrigation_status.scheduled_jobs = prior.irrigation_status.scheduled_jobs
        /\ Stopped(prior.irrigation_status) =>
               irrigation_status = prior.irrigation_status

\* Witness of C1: a stop that found the controller Running for 15 minutes.
C1_Witness ==
    /\ Requested("stop")
    /\ prior.irrigation_status.running
    /\ prior.irrigation_status.duration = 15
    /\ Stopped(irrigation_status)

\* C2: a pause request that finds the controller not running is refused (the
\* reply does not report success) and leaves the irrigation status unchanged.
C2_PauseWhileStoppedFails ==
    (Requested("pause") /\ ~prior.irrigation_status.running) =>
        /\ response.success = FALSE
        /\ irrigation_status = prior.irrigation_status

\* C3: a pause request that finds the controller Running leaves a state other
\* than Stopped that keeps the duration and the start time; and a resume
\* request that directly follows such a pause leaves the controller Running
\* with the duration the pause found and the start time of the resume.
PauseRetains ==
    (Requested("pause") /\ prior.irrigation_status.running) =>
        /\ response.success
        /\ ~Stopped(irrigation_status)
        /\ irrigation_status.duration = prior.irrigation_status.duration
        /\ irrigation_status.start_time = prior.irrigation_status.start_time

C3_PauseThenResume ==
    [][ /\ PauseRetains'
        /\ ( /\ Requested("pause")
             /\ prior.irrigation_status.running
             /\ Requested("resume")' ) =>
               /\ response'.success
               /\ irrigation_status'.running
               /\ irrigation_status'.duration = prior.irrigation_status.duration
               /\ irrigation_status'.start_time = Some(now') ]_vars

\* C4: a resume request that finds the controller Running, or Stopped (no
\* irrigation request was made yet, or the request before it was a stop), is
\* refused and leaves the irrigation status unchanged; a Stopped controller
\* does not become Running.
ResumeRefused ==
    /\ response.success = FALSE
    /\ irrigation_status = prior.irrigation_status

C4_ResumeOnlyFromPaused ==
    [][ /\ ( (Requested("resume") /\ prior.irrigation_status.running)
               => ResumeRefused )'
        /\ ( /\ (Requested("stop") \/ response.op = "none")
             /\ Requested("resume")' ) =>
               (ResumeRefused /\ ~irrigation_status.running)' ]_vars

\* C5: a start request always succeeds and leaves the controller Running with
\* the duration of the request (the default 10 when the request carries
\* none) and the start time of the request, whether it found the controller
\* Stopped or Running with another duration.
C5_StartOverwrites ==
    Requested("start") =>
        /\ response.success
        /\ irrigation_status.running
        /\ irrigation_status.duration = RequestedDuration
        /\ irrigation_status.start_time = Some(prior.time)

\* Witness of C5: a start for 15 minutes that found the controller Running
\* for 10 minutes since an earlier instant.
C5_Witness ==
    /\ Requested("start")
    /\ prior.irrigation_status.running
    /\ prior.irrigation_status.duration = 10
    /\ prior.irrigation_status.start_time # Some(prior.time)
    /\ irrigation_status.duration = 15
    /\ irrigation_status.start_time = Some(prior.time)

\* C6: after every successful start request the reading's pump_running is
\* true, and after every stop request it is false.
C6_PumpTracksIrrigation ==
    /\ (Requested("start") /\ response.success) => sensor_data.pump_running = TRUE
    /\ Requested("stop") => sensor_data.pump_running = FALSE

\* C7: a start request with a duration <= 0 is refused and leaves the
\* irrigation status unchanged, and the controller is never Running with a
\* duration <= 0.
C7_NonPositiveDurationRejected ==
    /\ (Requested("start") /\ RequestedDuration <= 0) =>
           /\ response.success = FALSE
           /\ irrigation_status = prior.irrigation_status
    /\ ~(irrigation_status.running /\ irrigation_status.duration <= 0)

\* C32: after any sequence of irrigation requests (start, stop, pause,
\* resume, an unknown action, no action), requests handled one after the
\* other, the irrigation status is consistent: when it is not running its
\* start time is None and its duration 0, and when it is running its start
\* time is set.
C32_IrrigationRecordConsistent ==
    /\ ~irrigation_status.running =>
           /\ irrigation_status.start_time = None
           /\ irrigation_status.duration = 0
    /\ irrigation_status.running => irrigation_status.start_time # None

\* Witness of C32: a resume request found the controller Stopped and left it
\* running with a start time (and the duration 0 it found).
C32_Witness ==
    /\ Requested("resume")
    /\ Stopped(prior.irrigation_status)
    /\ irrigation_status.running
    /\ irrigation_status.start_time = Some(prior.time)
    /\ irrigation_status.duration = 0

\* The four actions that irrigation_immediate acts on.
KnownActions == {"start", "stop", "pause", "resume"}

\* The latest request was an irrigation request whose action is none of the
\* four: no action, a value that is not a string (a number, null), or a
\* string that is none of the four in any letter case.
RequestedOther ==
    /\ response.op = "irrigation"
    /\ prior.request # None
    /\ \/ prior.request[1].action = None
       \/ ~prior.request[1].action[1].str
       \/ /\ prior.request[1].action[1].str
          /\ Lower(prior.request[1].action[1].val) \notin KnownActions

\* The latest request was an irrigation request with no action, or with a
\* string that is none of the four in any letter case.
RequestedOtherText ==
    /\ response.op = "irrigation"
    /\ prior.request # None
    /\ \/ prior.request[1].action = None
       \/ /\ prior.request[1].action[1].str
          /\ Lower(prior.request[1].action[1].val) \notin KnownActions

\* C36, as claimed: an irrigation request whose action is none of start,
\* stop, pause, resume (or that has no action) leaves the irrigation status
\* (running, start time, duration, scheduled jobs) as it found it and is
\* answered with success.
C36_OtherActionSucceeds ==
    RequestedOther =>
        /\ irrigation_status = prior.irrigation_status
        /\ response.success

\* C36, amended: an irrigation request with no action, or whose action is a
\* string that is none of start, stop, pause, resume in any letter case,
\* leaves the irrigation status as it found it and is answered with success,
\* not with an error.
C36_OtherTextActionSucceeds ==
    RequestedOtherText =>
        /\ irrigation_status = prior.irrigation_status
        /\ response.success
        /\ response.error = None

\* Witness of C36: the action "flood", sent while the pump was running for
\* 15 minutes, was answered with success and left it running.
C36_Witness ==
    /\ RequestedOtherText
    /\ prior.request[1].action = StrVal("flood")
    /\ prior.irrigation_status.running
    /\ prior.irrigation_status.duration = 15
    /\ irrigation_status = prior.irrigation_status
    /\ response.success
    /\ response.message = Some(MsgOf("Irrigation {action} processed", "flood"))

\* ============================================================== assessment
\* The latest request asked for the assessment (GET /api/sensors or
\* GET /api/mode); the reply of analyze_and_display_actions it carries.
GotAssessment == response.op \in {"get_sensors", "get_mode"}

AiReply == response.ai_analysis[1]

\* The latest request evaluated in automatic mode (GET /api/sensors,
\* GET /api/mode or POST /api/mode): last_eval is that evaluation, and prior
\* holds the last analysis time and the evaluation before it.
Evaluated ==
    /\ response.op \in {"get_sensors", "get_mode", "set_mode", "evaluate"}
    /\ response.ai_analysis # None
    /\ AiReply.ai_active

\* The evaluation recomputed the assessment.
Fresh == AiReply.analysis # None

\* C8: while the mode is manual, every request for the assessment is answered
\* with the inactive marker (AI not active, no analysis and no cached
\* assessment, hence no alerts), whatever the reading and whether or not an
\* assessment is cached; and it computes nothing: the last analysis time and
\* the record of the last evaluation are as the request found them.
C8_ManualIsInactive ==
    (GotAssessment /\ current_mode = "manual") =>
        /\ response.success
        /\ AiReply.ai_active = FALSE
        /\ Delivered(AiReply) = None
        /\ last_analysis_time = prior.last_analysis_time
        /\ last_eval = prior.eval

\* Witness of C8: in manual mode, with an assessment cached and a reading whose
\* soil moisture and water level are critical, GET /api/sensors was answered.
C8_Witness ==
    /\ response.op = "get_sensors"
    /\ current_mode = "manual"
    /\ current_action # None
    /\ sensor_data.soil_moisture = Num(18)
    /\ sensor_data.water_level = Num(90)
    /\ AiReply.ai_active = FALSE

\* C9: an evaluation in automatic mode recomputes exactly when there was no
\* computation before or the time since the last one is at least 30 s,
\* however long that time is; otherwise it delivers the cached assessment and
\* the remaining wait, 30 s less the time elapsed.
C9_RecomputesExactlyWhenDue ==
    Evaluated =>
        LET since == prior.last_analysis_time
            elapsed == last_eval[1].time - since[1]
        IN  /\ Fresh <=> (since = None \/ elapsed >= analysis_interval)
            /\ ~Fresh =>
                   /\ AiReply.current_action # None
                   /\ AiReply.current_action[1].timestamp = since[1]
                   /\ AiReply.wait = Some(analysis_interval - elapsed)

\* C10, as claimed: of two successive evaluations in automatic mode less than
\* 30 s apart, the second delivers the assessment the first delivered, equal
\* in every field.
C10_SecondWithinIntervalOfFirst ==
    ( /\ Evaluated
      /\ prior.eval # None
      /\ last_eval[1].time - prior.eval[1].time < analysis_interval ) =>
        last_eval[1].delivered = prior.eval[1].delivered

\* C10, amended: an evaluation in automatic mode made less than 30 s after
\* the last recomputation delivers the assessment that the evaluation in
\* automatic mode before it delivered, equal in every field, the timestamp
\* included.
C10_SecondWithinIntervalOfRecomputation ==
    ( /\ Evaluated
      /\ prior.last_analysis_time # None
      /\ last_eval[1].time - prior.last_analysis_time[1] < analysis_interval ) =>
        /\ prior.eval # None
        /\ last_eval[1].delivered # None
        /\ last_eval[1].delivered = prior.eval[1].delivered

\* Witness of C10: an evaluation 15 s after the recomputation, on a reading
\* that has become critical since, delivered the assessment of the evaluation
\* before it, which reports no alert.
C10_Witness ==
    /\ Evaluated
    /\ prior.eval # None
    /\ prior.last_analysis_time # None
    /\ last_eval[1].time - prior.last_analysis_time[1] = 15
    /\ sensor_data.soil_moisture = Num(18)
    /\ last_eval[1].delivered = prior.eval[1].delivered
    /\ last_eval[1].delivered[1].alerts = <<>>

\* ==================================================================== mode
\* The step is a POST /api/mode that asks for mode m (by name, or by default
\* when the body has no mode).
SetModeStep(m) ==
    /\ response'.op = "set_mode"
    /\ now' = now
    /\ prior'.request # None
    /\ RequestedMode(prior'.request[1]) = m

\* The request before the step was a successful POST /api/mode for mode m.
JustSetMode(m) ==
    /\ response.op = "set_mode"
    /\ response.success
    /\ response.mode = Some(m)

\* C19, as claimed: a request for the mode automatic or manual succeeds from
\* every state and makes that the mode; and when the request before it was
\* for the same mode, it changes nothing: the mode, the reading, the
\* irrigation status, the cached analysis and the last analysis time are as
\* the first request left them.
C19_SetModeTwiceChangesNothing ==
    [][ \A m \in {"automatic", "manual"} :
          SetModeStep(m) =>
            /\ response'.success
            /\ current_mode' = m
            /\ JustSetMode(m) =>
                   /\ current_mode' = current_mode
                   /\ sensor_data' = sensor_data
                   /\ irrigation_status' = irrigation_status
                   /\ current_action' = current_action
                   /\ last_analysis_time' = last_analysis_time ]_vars

\* C19, amended: a request for the mode automatic or manual succeeds from
\* every state and makes that the mode; when the request before it was for
\* the same mode, the mode, the reading and the irrigation status are as the
\* first request left them, and so are the cached analysis and the last
\* analysis time if the mode is manual or if the second request comes less
\* than 30 s after the last recomputation.
C19_SetModeTwiceWithinInterval ==
    [][ \A m \in {"automatic", "manual"} :
          SetModeStep(m) =>
            /\ response'.success
            /\ current_mode' = m
            /\ JustSetMode(m) =>
                   /\ current_mode' = current_mode
                   /\ sensor_data' = sensor_data
                   /\ irrigation_status' = irrigation_status
                   /\ ( \/ m = "manual"
                        \/ /\ last_analysis_time # None
                           /\ now - last_analysis_time[1] < analysis_interval ) =>
                          /\ current_action' = current_action
                          /\ last_analysis_time' = last_analysis_time ]_vars

\* Witness of C19: a second request for the mode automatic, 15 s after the
\* recomputation, found the mode automatic and left the cache as it was.
C19_Witness ==
    /\ response.op = "set_mode"
    /\ response.success
    /\ prior.repeat
    /\ current_mode = "automatic"
    /\ prior.last_analysis_time # None
    /\ prior.time - prior.last_analysis_time[1] = 15
    /\ last_analysis_time = prior.last_analysis_time
    /\ AiReply.current_action = current_action

\* C20: a request for the mode manual changes the mode and nothing else: the
\* irrigation status (running, start time, duration, scheduled jobs), the
\* cached analysis, the last analysis time and the reading are as it found
\* them, so an irrigation that was running is still running.
C20_ManualChangesOnlyMode ==
    [][ SetModeStep("manual") =>
          /\ response'.success
          /\ current_mode' = "manual"
          /\ irrigation_status' = irrigation_status
          /\ current_action' = current_action
          /\ last_analysis_time' = last_analysis_time
          /\ sensor_data' = sensor_data ]_vars

\* Witness of C20: the mode was set to manual at a later instant than the
\* start of an irrigation of 15 minutes, which is still running, with an
\* analysis in the cache.
C20_Witness ==
    /\ response.op = "set_mode"
    /\ response.mode = Some("manual")
    /\ current_mode = "manual"
    /\ irrigation_status.running
    /\ irrigation_status.duration = 15
    /\ irrigation_status.start_time # None
    /\ irrigation_status.start_time[1] < prior.time
    /\ current_action # None
    /\ last_analysis_time # None

\* C21: a POST /api/mode whose mode is neither automatic nor manual is
\* refused: the reply has success false and an error, and the mode, the
\* reading, the irrigation status, the cached analysis and the last analysis
\* time are as the request found them.
C21_InvalidModeRejected ==
    [][ ( /\ response'.op = "set_mode"
          /\ now' = now
          /\ prior'.request # None
          /\ RequestedMode(prior'.request[1]) \notin {"automatic", "manual"} ) =>
          /\ ~response'.success
          /\ response'.error # None
          /\ response'.mode = None
          /\ current_mode' = current_mode
          /\ sensor_data' = sensor_data
          /\ irrigation_status' = irrigation_status
          /\ current_action' = current_action
          /\ last_analysis_time' = last_analysis_time ]_vars

\* Witness of C21: the mode eco was refused while the mode was manual, the
\* reading had been updated and an analysis was in the cache.
C21_Witness ==
    /\ response.op = "set_mode"
    /\ ~response.success
    /\ response.error = Some("Invalid mode. Use 'automatic' or 'manual'")
    /\ prior.request = Some(ModeRequest(Some("eco")))
    /\ current_mode = "manual"
    /\ sensor_data.soil_moisture = Num(18)
    /\ current_action # None
    /\ last_analysis_time = Some(15)

\* ================================================ the cache in manual mode
\* The step is a direct evaluation.
EvaluateStep ==
    /\ response'.op = "evaluate"
    /\ now' = now

\* The step evaluates in automatic mode: a direct evaluation, or the
\* evaluation that a request for the mode automatic makes.
EvaluatesInAutomatic ==
    /\ current_mode' = "automatic"
    /\ \/ EvaluateStep
       \/ SetModeStep("automatic")

\* Less than 30 s have passed since the last recomputation.
WithinInterval ==
    /\ last_analysis_time # None
    /\ now - last_analysis_time[1] < analysis_interval

\* C33: an evaluation made while the mode is manual replies inactive and
\* leaves the cached analysis and the last analysis time as they were, and so
\* does every step that ends in manual mode; consequently an evaluation in
\* automatic mode less than 30 s after the last recomputation (the one a
\* request for the mode automatic makes after a manual period, and one that
\* follows it) computes nothing: it returns the cached analysis, which is the
\* analysis that the last evaluation in automatic mode delivered, before the
\* manual period.
C33_ManualEvaluateKeepsCache ==
    [][ /\ (EvaluateStep /\ current_mode = "manual") =>
               /\ ~response'.ai_analysis[1].ai_active
               /\ current_action' = current_action
               /\ last_analysis_time' = last_analysis_time
        /\ current_mode' = "manual" =>
               /\ current_action' = current_action
               /\ last_analysis_time' = last_analysis_time
        /\ (EvaluatesInAutomatic /\ WithinInterval) =>
               /\ response'.ai_analysis[1].analysis = None
               /\ response'.ai_analysis[1].current_action = current_action
               /\ current_action' = current_action
               /\ last_analysis_time' = last_analysis_time
               /\ last_eval # None
               /\ current_action = last_eval[1].delivered ]_vars

\* Witness of C33: a direct evaluation in manual mode, 15 s after the last
\* recomputation and after a device update, replied inactive with the cache
\* (the analysis of the reading before the update) in place.
C33_Witness ==
    /\ response.op = "evaluate"
    /\ current_mode = "manual"
    /\ ~AiReply.ai_active
    /\ sensor_data.soil_moisture = Num(18)
    /\ current_action # None
    /\ current_action[1].alerts = <<>>
    /\ last_analysis_time = Some(0)
    /\ prior.time = 15

\* =================================================== a request without a mode
\* The step is a POST /api/mode whose body has no mode.
SetModeStepWithoutMode ==
    /\ response'.op = "set_mode"
    /\ now' = now
    /\ prior'.request = Some(ModeRequest(None))

\* C37: a POST /api/mode whose body has no mode is handled as a request for
\* the mode automatic: it succeeds and reports the mode automatic, from
\* manual mode as from automatic mode it leaves the mode automatic, and it
\* evaluates (the reply carries an active assessment, recomputed at the time
\* of the request unless the last recomputation is less than 30 s old); it
\* is not rejected with the mode as it was.
C37_MissingModeIsAutomatic ==
    [][ SetModeStepWithoutMode =>
          /\ response'.success
          /\ response'.error = None
          /\ response'.mode = Some("automatic")
          /\ current_mode' = "automatic"
          /\ response'.ai_analysis # None
          /\ response'.ai_analysis[1].ai_active
          /\ last_eval' # None
          /\ last_eval'[1].time = now
          /\ ~Throttled(now, last_analysis_time) =>
                 /\ last_analysis_time' = Some(now)
                 /\ response'.ai_analysis[1].analysis = current_action'
          /\ current_mode = "manual" => current_mode' # current_mode ]_vars

\* Witness of C37: a request without a mode, 15 s after a device update and
\* with no analysis made before, succeeded, left the mode automatic and
\* returned the analysis it computed from the updated reading.
C37_Witness ==
    /\ response.op = "set_mode"
    /\ prior.request = Some(ModeRequest(None))
    /\ response.success
    /\ response.mode = Some("automatic")
    /\ current_mode = "automatic"
    /\ prior.time = 15
    /\ prior.last_analysis_time = None
    /\ last_analysis_time = Some(15)
    /\ AiReply.analysis = current_action
    /\ sensor_data.soil_moisture = Num(18)
    /\ current_action[1].alerts # <<>>

\* ====================================================== irrigation in rain
\* The analysis in the cache has a system action that holds irrigation back
\* because of rain: the rain sensor's, or the forecast's.
RainPause(cur) ==
    /\ cur # None
    /\ \E i \in DOMAIN cur[1].system_actions :
          cur[1].system_actions[i] \in
            { Msg("AUTO: Rain detected - Pausing irrigation to prevent overwatering"),
              Msg("AUTO: High rain probability - Postponing irrigation schedule") }

\* The step is a POST /api/irrigation/immediate whose action is start, in
\* any letter case.
StartStep ==
    /\ response'.op = "irrigation"
    /\ now' = now
    /\ prior'.request # None
    /\ prior'.request[1].action # None
    /\ prior'.request[1].action[1].str
    /\ Lower(prior'.request[1].action[1].val) = "start"

\* The reply carries a note that is not empty.
Advised(reply) == reply.ai_insight # None /\ reply.ai_insight # Some("")

C23_FailureLeavesStateUnchanged ==
    [][ ( /\ response'.op \in {"post_sensors", "get_sensors", "get_mode",
                                "set_mode", "irrigation"}
          /\ now' = now
          /\ ~response'.success ) =>
          /\ sensor_data' = sensor_data
          /\ current_mode' = current_mode
          /\ irrigation_status' = irrigation_status
          /\ current_action' = current_action
          /\ last_analysis_time' = last_analysis_time ]_vars

\* Witness of C23: a JSON array posted as the reading was refused, later
\* than the last update of the reading, while an irrigation was running in
\* manual mode with an analysis in the cache.
C23_Witness ==
    /\ response.op = "post_sensors"
    /\ ~response.success
    /\ prior.request = Some(ListPayload)
    /\ sensor_data.soil_moisture = Num(18)
    /\ sensor_data.last_updated < now
    /\ irrigation_status.running
    /\ current_mode = "manual"
    /\ current_action # None

\* ================================================================= weather
\* A snapshot as the handlers need it: a current record and a forecast of
\* seven daily records, every rain chance from 0 to 100.
WellFormedSnapshot(w) ==
    /\ DOMAIN w = {"current", "forecast"}
    /\ w.current.rain_chance \in 0..100
    /\ Len(w.forecast) = 7
    /\ \A i \in 1..7 : w.forecast[i].rain_chance \in 0..100

\* C24: whatever the two remote weather services do (time out, refuse the
\* connection, answer with an error status or with status 200), the fetch
\* returns a snapshot with a current record and a forecast of exactly seven
\* daily records whose rain chances are from 0 to 100, and no GET
\* /api/weather, GET /api/sensors, GET /api/mode, POST /api/mode or
\* irrigation request has a reply with success false.
C24_WeatherFailureNeverSurfaces ==
    /\ response.op = "get_weather" =>
          /\ response.success
          /\ response.data # None
          /\ WellFormedSnapshot(response.data[1])
    /\ response.op \in {"get_sensors", "get_mode", "set_mode", "irrigation"} =>
          response.success

\* Witness of C24: in automatic mode an irrigation was started and annotated
\* from a fetched snapshot, with an analysis of a wet forecast in the cache.
C24_Witness ==
    /\ Requested("start")
    /\ response.success
    /\ current_mode = "automatic"
    /\ response.ai_insight =
          Some("AI Note: High rain probability detected - Consider shorter duration")
    /\ RainPause(current_action)
    /\ irrigation_status.running

\* =============================================================== job store
\* The jobs in the store.
Jobs == irrigation_status.scheduled_jobs

\* C25: CreateJob with a positive duration and at least one weekday succeeds
\* and returns an id that no job of the store had; a job with this id and
\* the spec's duration and weekdays is then among the listed jobs, with all
\* the jobs that were there.  DeleteJob of an id that no job of the store has
\* fails with NotFound and leaves the store as it was.  After DeleteJob of an
\* id of the store's, the listed jobs are those that were there except the
\* job of this id.
C25_JobStoreCreateDelete ==
    [][ /\ ( /\ response'.op = "create_job"
              /\ prior'.request # None
              /\ ValidJobSpec(prior'.request[1]) ) =>
              /\ response'.success
              /\ response'.data # None
              /\ response'.data[1] \notin JobIdsOf(Jobs)
              /\ \E j \in ListedJobs(Jobs') :
                    /\ j.id = response'.data[1]
                    /\ j.duration = prior'.request[1].duration
                    /\ j.days = prior'.request[1].days
              /\ ListedJobs(Jobs) \subseteq ListedJobs(Jobs')
        /\ ( /\ response'.op = "delete_job"
              /\ prior'.request # None
              /\ prior'.request[1] \notin JobIdsOf(Jobs) ) =>
              /\ ~response'.success
              /\ response'.error = Some("NotFoundError")
              /\ Jobs' = Jobs
        /\ ( /\ response'.op = "delete_job"
              /\ prior'.request # None
              /\ prior'.request[1] \in JobIdsOf(Jobs) ) =>
              /\ response'.success
              /\ ListedJobs(Jobs') =
                    { j \in ListedJobs(Jobs) : j.id # prior'.request[1] } ]_vars

\* Witness of C25: of two jobs in the store the first was deleted, and the
\* second is still there.
C25_Witness ==
    /\ response.op = "delete_job"
    /\ response.success
    /\ Len(prior.irrigation_status.scheduled_jobs) = 2
    /\ prior.irrigation_status.scheduled_jobs[1].id = prior.request[1]
    /\ Jobs = <<prior.irrigation_status.scheduled_jobs[2]>>

\* =============================================================== scheduler
\* The scheduler has found a job due since the latest request.
Scheduled == prior.scheduler # None

\* The controller was paused by hand when the scheduler found the job due:
\* the latest request was a pause of a running irrigation.
PausedByHand ==
    /\ Requested("pause")
    /\ response.success
    /\ prior.irrigation_status.running
    /\ ~prior.scheduler[1].found.running

\* C26: when the scheduler finds a job due it fires only if the controller
\* is Stopped: the irrigation is then running with the job's duration.  If
\* the controller was Running, or Paused by a pause request, the scheduler
\* leaves the irrigation status as it found it.  And a stop request leaves
\* the controller Stopped, whatever the scheduler did before it.
C26_SchedulerYieldsToManual ==
    /\ Scheduled =>
          LET found == prior.scheduler[1].found
              job == prior.scheduler[1].job
          IN  /\ (found.running \/ PausedByHand) => irrigation_status = found
              /\ (Stopped(found) /\ ~PausedByHand) =>
                    /\ irrigation_status.running
                    /\ irrigation_status.duration = job.duration
    /\ (Requested("stop") /\ ~Scheduled) => Stopped(irrigation_status)

\* ========================================================== sensor updates
\* The latest request was POST /api/sensors with a JSON object; its keys.
PostedObject ==
    /\ response.op = "post_sensors"
    /\ prior.request # None
    /\ prior.request[1].dict

PostedKeys == DOMAIN prior.request[1].items

\* C17: after any updates, with any keys, the reading has exactly the fields
\* it had at the start: a key it does not have is not stored, and an update
\* that carries such a key succeeds.
C17_OnlyRecognizedFieldsStored ==
    /\ DOMAIN sensor_data = SensorKeys
    /\ (PostedObject /\ PostedKeys \ SensorKeys # {}) => response.success

\* Witness of C17: an update with soil_moisture and the unknown key firmware
\* succeeded and stored the soil moisture.
C17_Witness ==
    /\ PostedObject
    /\ PostedKeys = {"soil_moisture", "firmware"}
    /\ response.success
    /\ sensor_data.soil_moisture = Num(18)
    /\ DOMAIN sensor_data = SensorKeys

\* C18: every update that reports success leaves connection_status
\* "connected" and last_updated at the time of the update, whatever the body:
\* empty, with unknown keys only, or with values for connection_status and
\* last_updated.
C18_SuccessfulUpdateStamps ==
    [][ ( /\ response'.op = "post_sensors"
          /\ response'.success
          /\ now' = now ) =>
            /\ sensor_data'.connection_status = "connected"
            /\ sensor_data'.last_updated = now ]_vars

\* C34: GET /api/sensors is not a pure read: it leaves last_updated at the
\* time of the read and every other field of the reading as it found it, so
\* last_updated moves on although no device has posted an update.
C34_ReadStampsLastUpdated ==
    [][ ( /\ response'.op = "get_sensors"
          /\ now' = now ) =>
            /\ sensor_data'.last_updated = now
            /\ \A k \in SensorKeys \ {"last_updated"} :
                   sensor_data'[k] = sensor_data[k]
            /\ DOMAIN sensor_data' = SensorKeys ]_vars

\* Witness of C34: a read 15 s after startup, before any device update, left
\* the reading of the start with last_updated 15.
C34_Witness ==
    /\ response.op = "get_sensors"
    /\ response.success
    /\ sensor_data = [InitialSensorData EXCEPT !.last_updated = 15]

\* C35: after every request (updates of the reading, among them updates that
\* carry a connection_status other than "connected", reads, mode requests and
\* irrigation requests, handled one after the other) the connection_status
\* of the reading is "connected".
C35_AlwaysConnected ==
    sensor_data.connection_status = "connected"

\* Witness of C35: an update that carried connection_status "disconnected"
\* succeeded and left the reading connected.
C35_Witness ==
    /\ PostedObject
    /\ response.success
    /\ "connection_status" \in PostedKeys
    /\ prior.request[1].items.connection_status = "disconnected"
    /\ sensor_data.connection_status = "connected"

\* ================================================== the analysis's results
\* The latest request was a direct evaluation that recomputed; the analysis
\* it returned.
FreshlyEvaluated ==
    /\ response.op = "evaluate"
    /\ AiReply.ai_active
    /\ Fresh

Analysis == AiReply.analysis[1]

\* The evaluation was given a reading whose measured fields hold numbers and
\* weather data that is a mapping: the inputs the analysis is written for.
\* (With any other input the try block raises: C16.)
TypedInputs == ~Raises(sensor_data, prior.weather[1])

Range(seq) == { seq[i] : i \in DOMAIN seq }

SoilAlert == Msg("Critical: Soil moisture low - Crops need water")
WaterAlert == Msg("Critical: Water tank level very low - Refill needed")

\* C13: the score of every analysis that an evaluation returns, computed by
\* this call, taken from the cache or produced by the except branch, and of
\* the analysis in the cache, is between 0 and 100, for every reading and
\* all weather data.
C13_ScoreWithinRange ==
    /\ current_action # None =>
           current_action[1].optimization_score \in 0..100
    /\ (Evaluated /\ Delivered(AiReply) # None) =>
           Delivered(AiReply)[1].optimization_score \in 0..100

\* Witness of C13: an evaluation answered from the cache with the analysis
\* of a reading that incurs every deduction (20 + 15 + 25).
C13_Witness ==
    /\ response.op = "evaluate"
    /\ AiReply.ai_active
    /\ ~Fresh
    /\ Delivered(AiReply) # None
    /\ Delivered(AiReply)[1].optimization_score = 40

\* C14: a recomputation on a reading whose soil moisture is below 25 (the
\* critical threshold of the analysis) reports the critical soil alert, and
\* its score is 20 less (not 10 less) than the score of the same reading
\* with an optimal soil moisture, whatever the temperature, humidity, water
\* level, rain flag and forecast.
C14_SoilCriticalDeductsTwenty ==
    (FreshlyEvaluated /\ TypedInputs /\ sensor_data.soil_moisture.val < 25) =>
        /\ SoilAlert \in Range(Analysis.alerts)
        /\ Analysis.optimization_score =
               PerformIntelligentAnalysis(
                   [sensor_data EXCEPT !.soil_moisture = InitialSensorData.soil_moisture],
                   prior.weather[1], prior.time).optimization_score - 20

\* Witness of C14: a recomputation on soil moisture 24 with a high
\* temperature, a critical water level, rain and a rainy forecast.
C14_Witness ==
    /\ FreshlyEvaluated
    /\ sensor_data.soil_moisture = Num(24)
    /\ sensor_data.temperature = Num(35)
    /\ sensor_data.water_level = Num(90)
    /\ sensor_data.rain_detected
    /\ prior.weather = Some(WeatherSnapshot(80, 90))
    /\ SoilAlert \in Range(Analysis.alerts)
    /\ Analysis.optimization_score = 40

\* C15: a recomputation on a reading whose soil moisture is below 25 and
\* whose water level is below 150 (the critical thresholds of the analysis)
\* reports the soil alert and the water alert, a score of at most 55 and the
\* status Action Required.
C15_SoilAndWaterCritical ==
    ( /\ FreshlyEvaluated
      /\ TypedInputs
      /\ sensor_data.soil_moisture.val < 25
      /\ sensor_data.water_level.val < 150 ) =>
        /\ SoilAlert \in Range(Analysis.alerts)
        /\ WaterAlert \in Range(Analysis.alerts)
        /\ Analysis.optimization_score <= 55
        /\ Analysis.overall_status =
               "Action Required: Multiple critical issues detected"

\* Witness of C15: a recomputation on soil moisture 18 and water level 90,
\* with an optimal temperature: the score is 55.
C15_Witness ==
    /\ FreshlyEvaluated
    /\ sensor_data.soil_moisture = Num(18)
    /\ sensor_data.water_level = Num(90)
    /\ sensor_data.temperature = Num(25)
    /\ TypedInputs
    /\ Analysis.alerts = <<SoilAlert, WaterAlert>>
    /\ Analysis.optimization_score = 55

\* C16: an evaluation always replies; and when its try block raises (a
\* measured field that is not a number, weather data that is not a mapping)
\* the analysis it returns is the fixed one: score 85, the status
\* "operational", one system action (the diagnostics) and no alert.
C16_FailureGivesFallback ==
    /\ response.op = "evaluate" => response.success
    /\ (FreshlyEvaluated /\ ~TypedInputs) =>
           /\ Analysis.optimization_score = 85
           /\ Analysis.overall_status = "AI analysis system operational"
           /\ Analysis.system_actions =
                  <<Msg("AUTO: Performing system diagnostics")>>
           /\ "alerts" \notin DOMAIN Analysis

\* Witness of C16: a recomputation on a soil moisture posted as text, with
\* None for the weather data, returned the fixed analysis.
C16_Witness ==
    /\ FreshlyEvaluated
    /\ sensor_data.soil_moisture = Text("wet")
    /\ prior.weather = Some(None)
    /\ Analysis.optimization_score = 85

\* =================================================== what the score reads
\* The readings that agree with the stored one on soil moisture, temperature
\* and water level: every rain flag with a humidity in each humidity band.
SameScoredFields ==
    { [sensor_data EXCEPT !.rain_detected = rain, !.humidity = hum] :
        rain \in BOOLEAN, hum \in {Num(40), Num(65), Num(90)} }

\* Weather data with a current rain chance and a forecast rain chance in each
\* band of the forecast analysis.
AnyWeather == { WeatherSnapshot(c, f) : c \in {5, 80}, f \in {5, 25, 90} }

\* C31: the score and the status of an analysis that an evaluation has just
\* computed from a reading with numbers are the score and the status of the
\* analysis of every reading with the same soil moisture, temperature and
\* water level, whatever the rain flag, the humidity, the forecast rain
\* chance and the current weather of that other evaluation are.
C31_ScoreReadsThreeFields ==
    (FreshlyEvaluated /\ TypedInputs) =>
        \A other \in SameScoredFields, weather \in AnyWeather :
            LET second == PerformIntelligentAnalysis(other, weather, prior.time)
            IN  /\ second.optimization_score = Analysis.optimization_score
                /\ second.overall_status = Analysis.overall_status

\* Witness of C31: a recomputation on rain, a high humidity and a rainy
\* forecast, with a critical soil moisture and a high temperature, scored 65
\* as the same three fields do in dry weather.
C31_Witness ==
    /\ FreshlyEvaluated
    /\ sensor_data.soil_moisture = Num(18)
    /\ sensor_data.temperature = Num(35)
    /\ sensor_data.water_level = Num(245)
    /\ sensor_data.rain_detected
    /\ sensor_data.humidity = Num(90)
    /\ prior.weather = Some(WeatherSnapshot(80, 90))
    /\ Analysis.optimization_score = 65
    /\ PerformIntelligentAnalysis(
           [sensor_data EXCEPT !.rain_detected = FALSE, !.humidity = Num(65)],
           WeatherSnapshot(5, 25), prior.time).optimization_score = 65

\* ------------------------------------------------------------------ bands
\* C28: the status of an analysis that an evaluation has just computed from a
\* reading with numbers is given by its reported score alone: Excellent from
\* 90 on, Good from 75 to 89, Fair from 60 to 74, Action Required below 60.
C28_StatusFollowsScore ==
    (FreshlyEvaluated /\ TypedInputs) =>
        LET score == Analysis.optimization_score IN
        /\ score >= 90 =>
              Analysis.overall_status = "Excellent: Farm conditions optimal"
        /\ (75 <= score /\ score < 90) =>
              Analysis.overall_status = "Good: Minor adjustments recommended"
        /\ (60 <= score /\ score < 75) =>
              Analysis.overall_status = "Fair: Several improvements needed"
        /\ score < 60 =>
              Analysis.overall_status =
                  "Action Required: Multiple critical issues detected"

\* Witness of C28: a recomputation whose score is 75, the lowest that is
\* Good: 100 less 10 for a soil moisture of 30, 10 for a temperature of 14
\* and 5 for a water level of 199.
C28_Witness ==
    /\ FreshlyEvaluated
    /\ TypedInputs
    /\ Analysis.optimization_score = 75
    /\ Analysis.overall_status = "Good: Minor adjustments recommended"
    /\ sensor_data.soil_moisture = Num(30)
    /\ sensor_data.temperature = Num(14)
    /\ sensor_data.water_level = Num(199)

\* The entries of the analysis that the temperature can add.
HighTemperatureAlert == Msg("Alert: High temperature detected - Risk of heat stress")
VentilationAction == Msg("AUTO: Increasing ventilation and shade protection")
LowTemperatureAlert == Msg("Alert: Low temperature - Growth may slow down")
FrostAction == Msg("AUTO: Monitoring for frost protection needs")
OptimalTemperature(temp) ==
    MsgOf("Optimal: Temperature {temp} C perfect for crop growth", temp)

\* The score of the latest evaluation's reading with this field replaced.
ScoreWith(field, value) ==
    PerformIntelligentAnalysis([sensor_data EXCEPT ![field] = value],
                               prior.weather[1], prior.time).optimization_score

\* C29: in an analysis that an evaluation has just computed from a reading
\* with numbers, the temperature has exactly one of three outcomes.  Above
\* 32: the high temperature alert, the ventilation system action and a score
\* 15 below that of the same reading at 25 degrees.  Below 15: the low
\* temperature alert, the frost system action and a score 10 below.
\* Otherwise: the optimal temperature priority action and the same score.
\* The entries of the other two outcomes are absent.
C29_TemperatureBands ==
    (FreshlyEvaluated /\ TypedInputs) =>
        LET temp == sensor_data.temperature.val
            high == /\ HighTemperatureAlert \in Range(Analysis.alerts)
                    /\ VentilationAction \in Range(Analysis.system_actions)
                    /\ Analysis.optimization_score
                          = ScoreWith("temperature", Num(25)) - 15
            low ==  /\ LowTemperatureAlert \in Range(Analysis.alerts)
                    /\ FrostAction \in Range(Analysis.system_actions)
                    /\ Analysis.optimization_score
                          = ScoreWith("temperature", Num(25)) - 10
            optimal ==
                    /\ OptimalTemperature(temp) \in Range(Analysis.priority_actions)
                    /\ Analysis.optimization_score
                          = ScoreWith("temperature", Num(25))
            noHigh == /\ HighTemperatureAlert \notin Range(Analysis.alerts)
                      /\ VentilationAction \notin Range(Analysis.system_actions)
            noLow ==  /\ LowTemperatureAlert \notin Range(Analysis.alerts)
                      /\ FrostAction \notin Range(Analysis.system_actions)
            noOptimal ==
                \A i \in DOMAIN Analysis.priority_actions :
                    Analysis.priority_actions[i] # OptimalTemperature(temp)
        IN  /\ temp > 32 => (high /\ noLow /\ noOptimal)
            /\ temp < 15 => (low /\ noHigh /\ noOptimal)
            /\ (15 <= temp /\ temp <= 32) => (optimal /\ noHigh /\ noLow)

\* Witness of C29: a recomputation at 33 degrees, the first temperature above
\* the maximum, with a critical soil moisture and a critical water level.
C29_Witness ==
    /\ FreshlyEvaluated
    /\ TypedInputs
    /\ sensor_data.temperature = Num(33)
    /\ sensor_data.soil_moisture = Num(18)
    /\ sensor_data.water_level = Num(149)
    /\ HighTemperatureAlert \in Range(Analysis.alerts)
    /\ Analysis.optimization_score = 40

\* The entries of the analysis that the water level can add, besides the
\* alert.
LowWaterNotification == Msg("AUTO: Sending low water level notification")
PlanRefill == Msg("Monitor: Water level getting low - Plan refill soon")

\* C30: in an analysis that an evaluation has just computed from a reading
\* with numbers, the water level deducts at most once.  Below 150: the water
\* alert, the low water notification and a score 25 below that of the same
\* reading with a full tank, without the plan-refill priority action.  From
\* 150 and below 200: the plan-refill priority action and a score 5 below,
\* without the alert and the notification.  From 200: none of the three
\* entries and the same score.  The score is never 30 below.
C30_WaterLevelBands ==
    (FreshlyEvaluated /\ TypedInputs) =>
        LET water == sensor_data.water_level.val
            full == ScoreWith("water_level", InitialSensorData.water_level)
            alerted == /\ WaterAlert \in Range(Analysis.alerts)
                       /\ LowWaterNotification \in Range(Analysis.system_actions)
            notAlerted ==
                       /\ WaterAlert \notin Range(Analysis.alerts)
                       /\ LowWaterNotification \notin Range(Analysis.system_actions)
            refill == PlanRefill \in Range(Analysis.priority_actions)
        IN  /\ water < 150 =>
                  /\ alerted /\ ~refill
                  /\ Analysis.optimization_score = full - 25
            /\ (150 <= water /\ water < 200) =>
                  /\ refill /\ notAlerted
                  /\ Analysis.optimization_score = full - 5
            /\ water >= 200 =>
                  /\ notAlerted /\ ~refill
                  /\ Analysis.optimization_score = full
            /\ Analysis.optimization_score # full - 30

\* Witness of C30: a recomputation at a water level of 150, the first that is
\* not critical: the plan-refill action and 5 points less, 95 of 100.
C30_Witness ==
    /\ FreshlyEvaluated
    /\ TypedInputs
    /\ sensor_data.water_level = Num(150)
    /\ sensor_data.soil_moisture = Num(42)
    /\ sensor_data.temperature = Num(32)
    /\ PlanRefill \in Range(Analysis.priority_actions)
    /\ WaterAlert \notin Range(Analysis.alerts)
    /\ Analysis.optimization_score = 95

\* ============================================================== thresholds
\* C27: a SetThresholds with known keys makes the configuration the old one
\* with the given values for the given keys, and when the save succeeded the
\* stored mapping is the same; GetThresholds returns the configuration; a
\* restart loads the stored mapping; and a fresh evaluation of a reading
\* with numbers raises the soil-critical alert exactly when the soil moisture
\* is below the configured soilMoistureCritical.
C27_ThresholdsTakeEffect ==
    [][ /\ ( response'.op = "set_thresholds" /\ response'.success ) =>
              /\ \A k \in ThresholdKeys :
                    thresholds'[k] = IF k \in DOMAIN prior'.request[1]
                                     THEN prior'.request[1][k]
                                     ELSE thresholds[k]
              /\ response'.error = None => persisted' = Some(thresholds')
        /\ response'.op = "get_thresholds" =>
              response'.data = Some(thresholds')
        /\ ( response'.op = "restart" /\ persisted # None ) =>
              thresholds' = persisted[1]
        /\ ( FreshlyEvaluated /\ TypedInputs =>
               ( SoilAlert \in Range(Analysis.alerts)
                   <=> sensor_data.soil_moisture.val
                         < thresholds.soilMoistureCritical ) )' ]_vars

\* ============================================================ chat history
\* The step is a POST /api/chat.
ChatStep ==
    /\ response'.op = "chat"
    /\ now' = now

\* The step adds one entry at the end of the history, for the request of the
\* step, and keeps the entries before it in their order, the most recent
\* ones, as many as the limit allows.
StoresOneEntry ==
    LET old == Len(chat_history)
        new == Len(chat_history')
    IN  /\ new = IF old < HistoryLimit THEN old + 1 ELSE HistoryLimit
        /\ chat_history'[new].n = Arrivals(chat_history) + 1
        /\ chat_history'[new].timestamp = now
        /\ \A i \in 1..(new - 1) :
               chat_history'[i] = chat_history[old + 1 - new + i]

\* C38: the chat history never holds more than 100 entries, and every POST
\* /api/chat (with an empty message, with a response that was generated or
\* with the fallback after a generation error, with any body) stores exactly
\* one entry, at the end, dropping the oldest entry when there are 100.
C38_ChatHistoryKeepsLastHundred ==
    [][ /\ Len(chat_history') <= HistoryLimit
        /\ ChatStep => StoresOneEntry ]_vars

\* ============================================================= concurrency
\* The thread has computed an analysis that it has not yet finished storing.
Recomputing(w) == threads[w].pc \in {"store_action", "store_time"}

\* No thread is between the two assignments that store an analysis.
NoStoreInProgress == \A w \in Workers : threads[w].pc # "store_time"

\* C11: of two requests for the assessment that are being handled at the same
\* time, at most one recomputes (so there is at most one recomputation per
\* 30 s interval); and whenever no request is in the middle of storing its
\* result, the cached analysis and the last analysis time come from the same
\* computation: both are unset, or the analysis bears the time that
\* last_analysis_time holds.
C11_OneRecomputationPerInterval ==
    /\ \A v, w \in Workers : (Recomputing(v) /\ Recomputing(w)) => v = w
    /\ NoStoreInProgress =>
           IF current_action = None THEN last_analysis_time = None
           ELSE /\ last_analysis_time # None
                /\ current_action[1].timestamp = last_analysis_time[1]

\* The fields a thread has read so far hold every value of the posted body,
\* or none of them (the values the reading had before the first post).
ObservedAllOrNone(seen) ==
    \/ \A k \in DOMAIN ThreadPayload : seen[k] = ThreadPayload[k]
    \/ \A k \in DOMAIN ThreadPayload : seen[k] = InitialSensorData[k]

\* C12: every access to the shared state is atomic with respect to every
\* other: a request for the assessment that is handled while an update with
\* several fields is handled reads a reading that holds all the fields of the
\* update or none of them, never only some.
C12_ReadersSeeWholeUpdates ==
    \A w \in Workers :
        (DOMAIN ThreadPayload \subseteq DOMAIN threads[w].seen) =>
            ObservedAllOrNone(threads[w].seen)

====
